---- MODULE Spec2Model ----
(***************************************************************************)
(* Model of the mmx media-server extension.                                *)
(*                                                                         *)
(* Part I   the SRT / WHIP forwarder of internal/forwarder/manager.go:     *)
(*          Start, Stop, the supervisor run() and its inner run, the       *)
(*          stream's reader set and the delivery of units.                 *)
(* Part II  the simulcast aggregation source (package simulcast):          *)
(*          connectInputs, SSRC allocation, forwardVideo / forwardAudio.   *)
(* Part III the simulcast player (mmxplayer/mmxplayer.js) and its readers. *)
(* Part IV  the adaptive player with the penalty box (mixabr).             *)
(* Part V   the transcoding outputs and the transcoder static source.      *)
(* Part VI  NewManager building the forwarders of a path.                  *)
(* Part VII the payload size of the SRT forwarder's buffered writer.       *)
(* Part VIII the forwarder manager and its children: Manager.Start,        *)
(*          Manager.Stop and the children's supervisors.                   *)
(* Part IX  the transcoder manager and its ffmpeg outputs                  *)
(*          (internal/transcoder/manager.go): Start, Stop, the tasks.      *)
(* Part X   Run and Stop of the transcoder static source.                  *)
(* Part XI  the quality decision of the simulcast player.                  *)
(* Part XII the WHEP reader of the players (reader.js).                    *)
(***************************************************************************)
EXTENDS Integers, Sequences, FiniteSets, TLC

(***************************************************************************)
(* Bounds of the model.                                                    *)
(***************************************************************************)
\* calls of Start / Stop made by the host on one forwarder
MaxCalls == 4
\* inner-run attempts of the supervisors of one forwarder
MaxAttempts == 3
\* units dispatched to the forwarder's reader
MaxUnits == 1
\* the packet counts a dispatched unit may have
UnitSizes == {1, 2}

Streams == {1, 2}
Callers == {1, 2}
Kinds == {"srt", "whip"}
\* the reader of a local client, attached to every stream from the beginning
LocalReader == 0
SupIds == 1..MaxCalls
ReaderIds == 1..MaxAttempts
ConnIds == 1..MaxAttempts

VARIABLES
    \* ---- forwarder configuration (conf.SRTForwardTarget / WebRTCForwardTarget)
    kind,            \* "srt" | "whip"
    reconnect,       \* config.Reconnect
    urlOK,           \* the target URL parses and validates
    descOK,          \* the stream description can be mapped (FromStream succeeds)
    remotePlan,      \* "any" | "refuseOnce": what the remote does on connect
    \* ---- forwarder fields
    fStream,         \* f.stream   (0 = nil)
    fReader,         \* f.reader   (0 = nil)
    fConn,           \* f.sconn / f.whipClient (0 = nil)
    ctxDone,         \* f.ctx is cancelled
    wg,              \* f.wg counter
    lastError,       \* f.lastError ("" = nil)
    connected,       \* f.connected
    reconnectCount,  \* f.reconnectCount
    packetsSent,     \* f.packetsSent
    packetsLost,     \* f.packetsLost
    \* ---- goroutines
    sup,             \* supervisors: SupIds -> [pc, err, conn, rdr, strm]
    nSup,            \* supervisors spawned so far
    callerPc,        \* Callers -> "idle" | "stop_wait" | "stop_crit"
    panicked,        \* a goroutine dereferenced nil: the process is gone
    \* ---- environment
    streamReaders,   \* Streams -> set of readers attached to the stream
    connOpen,        \* connections (SRT conn / WHIP client) that are open
    closes,          \* ConnIds -> number of Close() calls
    removes,         \* ReaderIds -> number of RemoveReader() calls
    rdrErr,          \* readers whose error channel holds an error
    connFailed,      \* WHIP clients whose Wait() has an error to return
    nReaders,        \* readers created so far
    nConns,          \* connections created so far
    attempts,        \* inner runs started so far
    dials,           \* connection attempts answered by the remote so far
    pcSent,          \* ConnIds -> RTPPacketsSent of that WHIP peer connection
    \* ---- history
    hist,            \* returned calls: "start" | "start_err" | "stop"
    stopReturned,    \* a Stop has returned and no Start succeeded since
    unitsDispatched, \* units dispatched to the forwarder's reader
    pktsDispatched,  \* RTP packets of the dispatched units that carry a payload
    nilUnits         \* dispatched units discarded for a nil payload

VARIABLES
    simCfg,          \* s.config.Inputs
    simDesc,         \* SimPaths -> the description of the upstream stream
    simPc,           \* where Run is
    simK,            \* connectInputs: the input being connected
    simInputStreams, \* s.inputStreams: the paths that have an entry
    simReaders,      \* s.readers: path -> reader (0 = no entry)
    simLayer,        \* s.layerMapping: path -> [set, ssrc, layer]
    simAlloc,        \* per input, the SSRC randUint32 returned in its iteration
    upReaders,       \* SimPaths -> readers attached to the upstream stream
    simNReaders,     \* readers created so far
    simCb,           \* reader -> media type -> the input whose callback is registered
    simTask,         \* per input, the state of its forwarder task
    paramsCtxDone,   \* params.Context is cancelled
    simReady,        \* SetReady has returned and SetNotReady was not called since
    outDesc,         \* the description of the output stream
    simHeap,         \* the RTP packet objects, by identity
    simPub,          \* the upstream packets as they were published
    simOut,          \* the packets given to outputStream.WriteRTPPacket
    simUnits,        \* units published so far
    upPopulated,     \* SimPaths -> the upstream stream's description holds a media
    simElapsed,      \* time.Since(waitStart), in poll intervals
    simTimer,        \* simElapsed when the pending time.After was started
    simMissed,       \* the deadline passed while the awaited description was empty
    simTimedOut,     \* a poll woke after the deadline and the description was empty
    simRunErr,       \* the error Run returned ("" = none)
    simSetReadyCalled \* Run has called Parent.SetReady

\* the variables of the simulcast source
simVars == <<simCfg, simDesc, simPc, simK, simInputStreams, simReaders, simLayer,
             simAlloc, upReaders, simNReaders, simCb, simTask, paramsCtxDone,
             simReady, outDesc, simHeap, simPub, simOut, simUnits, upPopulated,
             simElapsed, simTimer, simMissed, simTimedOut, simRunErr,
             simSetReadyCalled>>


\* the variables of the forwarder
fwdVars == <<kind, reconnect, urlOK, descOK, remotePlan, fStream, fReader, fConn,
             ctxDone, wg, lastError, connected, reconnectCount, packetsSent,
             packetsLost, sup, nSup, callerPc, panicked, streamReaders, connOpen,
             closes, removes, rdrErr, connFailed, nReaders, nConns, attempts,
             dials, pcSent, hist, stopReturned, unitsDispatched, pktsDispatched,
             nilUnits>>

cfgVars == <<kind, reconnect, urlOK, descOK, remotePlan>>
\* what no forwarder action touches / what no simulcast action touches
VARIABLES
    spReaders,       \* reader -> [state, level, tracked] of the readers loadLevel created
    spNReaders,      \* readers created so far
    spCurrentReader, \* this.currentReader (0 = null)
    spCurrentLevelIdx, \* this.currentLevelIdx
    spIsAuto,        \* this.isAuto
    spIsSwitching,   \* this.isSwitching
    spCooldown,      \* this.switchCooldownTimer > 0
    spTimers,        \* level indexes of the pending setTimeout(loadLevel)
    spStarted        \* start() was called

\* the variables of the simulcast player
spVars == <<spReaders, spNReaders, spCurrentReader, spCurrentLevelIdx, spIsAuto,
            spIsSwitching, spCooldown, spTimers, spStarted>>

VARIABLES
    abrHasHevc,      \* detectHevcCapability(): levels 0 and 1 have a fallback stream
    abrReaders,      \* reader -> [state, level, tracked] (tracked = trackHandled)
    abrNReaders,     \* readers created so far
    abrCurrentReader, \* this.currentReader (0 = null)
    abrCurrentLevelIdx, \* this.currentLevelIdx
    abrLastGood,     \* this.lastSuccessfulLevelIdx
    abrIsAuto,       \* this.isAuto
    abrIsSwitching,  \* this.isSwitching
    abrFallback,     \* this.activeLevelUsingFallback
    abrCooldown,     \* this.switchCooldownTimer > 0
    abrPenaltyBox,   \* this.penaltyBox: level -> banUntil in ms (0 = no entry)
    abrFailureCounts, \* this.failureCounts: level -> count
    abrNow,          \* Date.now() in ms
    abrTimers,       \* the pending setTimeout(loadLevel): [level, cause]
    abrStarted,      \* start() was called
    abrLastLoad,     \* the last loadLevel that created a reader: [level, cause, banned]
    abrBanLen,       \* level -> the penalty time of its last penalizeLevel
    abrNErrors       \* reader errors reported so far

\* the variables of the adaptive player
abrVars == <<abrHasHevc, abrReaders, abrNReaders, abrCurrentReader, abrCurrentLevelIdx,
             abrLastGood, abrIsAuto, abrIsSwitching, abrFallback, abrCooldown,
             abrPenaltyBox, abrFailureCounts, abrNow, abrTimers, abrStarted,
             abrLastLoad, abrBanLen, abrNErrors>>

\* the transcoder manager, its outputs and the transcoder static sources
VARIABLES
    tcActive,        \* Manager.active
    tcGen,           \* Manager.Start calls that passed the guards so far
    tcOutputs,       \* output path -> TRUE when Manager.outputs holds it
    tcStreamDesc,    \* output path -> Desc of the output's stream
    tcParse,         \* output path -> where the outputProcessor stands
    tcSrcPc,         \* output path -> where the static source's Run stands
    tcHeld,          \* output path -> the Start whose stream Run acquired
    tcPublished,     \* output path -> Desc the sibling path was set ready with
    tcRuns           \* Run calls made by the host so far

tcVars == <<tcActive, tcGen, tcOutputs, tcStreamDesc, tcParse, tcSrcPc, tcHeld,
            tcPublished, tcRuns>>

\* NewManager of the forwarder package, building the forwarders of one path
VARIABLES
    nmSrtTargets,    \* the srtTargets argument
    nmWebrtcTargets, \* the webrtcTargets argument
    nmPathName,      \* the pathName argument
    nmI,             \* index of the next SRT target of the first loop
    nmJ,             \* index of the next WHIP target of the second loop
    nmForwarders,    \* m.forwarders
    nmReturned       \* TRUE once NewManager has returned m

nmVars == <<nmSrtTargets, nmWebrtcTargets, nmPathName, nmI, nmJ, nmForwarders, nmReturned>>

\* runInner of the SRT forwarder sizing its buffered writer
VARIABLES
    payUdp,          \* f.udpMaxPayloadSize
    payCalled,       \* TRUE once runInner has called srtMaxPayloadSize
    maxPayloadSize   \* the local variable of runInner

payVars == <<payUdp, payCalled, maxPayloadSize>>

\* the forwarder manager of a path with its child forwarders
VARIABLES
    mgCtxDone,       \* m.ctx is cancelled
    mgKids,          \* child -> [stream, ctxDone, wg]: f.stream != nil, f.ctx cancelled, f.wg
    mgSup,           \* child -> supervisor number -> where that run() stands
    mgTasks,         \* child -> start tasks spawned by Manager.Start, not run yet
    mgStop,          \* the child Manager.Stop is at (0: no Stop in progress)
    mgStopPc,        \* where the Stop of that child stands
    mgLast,          \* the last call of the host on the manager that returned
    mgStarts         \* Manager.Start calls so far

mgVars == <<mgCtxDone, mgKids, mgSup, mgTasks, mgStop, mgStopPc, mgLast, mgStarts>>

\* the transcoder manager with its outputs, their encoder children and tasks
VARIABLES
    tmActive,        \* Manager.active
    tmOutputs,       \* the outputs Manager.outputs holds
    tmErr,           \* what the last Manager.Start returned: "none", "ok", "error"
    tmStopAt,        \* the output Manager.Stop is stopping (0: no Stop in progress)
    tmStarts,        \* Manager.Start calls so far
    toActive,        \* output -> Output.active
    toCtxDone,       \* output -> o.ctx is cancelled
    toStdinOpen,     \* output -> the write end of the child's stdin is open
    toChild,         \* output -> "none", "running", "closing", "exited", "killed"
    toIn,            \* output -> where inputProcessor stands
    toOut,           \* output -> where outputProcessor stands
    toErrTask,       \* output -> where stderrMonitor stands
    toReader,        \* output -> o.reader is on the input stream
    toCbs,           \* output -> o.reader has its data callbacks
    toStopPc         \* output -> where Output.Stop stands

toVars == <<tmActive, tmOutputs, tmErr, tmStopAt, tmStarts, toActive, toCtxDone, toStdinOpen,
            toChild, toIn, toOut, toErrTask, toReader, toCbs, toStopPc>>

\* one transcoder static source with its terminate and done channels
VARIABLES
    ssRun,           \* where Run stands: "idle", "addreader", ..., "select", "returned"
    ssRunErr,        \* the error the last Run returned ("" for nil)
    ssRuns,          \* Run calls so far
    ssCtxDone,       \* params.Context of the current Run is cancelled
    ssTerminate,     \* s.terminate is closed
    ssDone,          \* s.done is closed
    ssStop,          \* where Stop stands: "idle", "waiting", "returned"
    ssDesc,          \* Desc of the transcoder output stream: "nil", "empty", "medias"
    ssRegReader,     \* the source is a reader of the input path in the registry
    ssReady,         \* the static source's path is ready
    ssPanicked       \* a close of a closed channel has panicked

ssVars == <<ssRun, ssRunErr, ssRuns, ssCtxDone, ssTerminate, ssDone, ssStop, ssDesc,
            ssRegReader, ssReady, ssPanicked>>

\* the quality decision of the simulcast player, tick by tick
VARIABLES
    dqStarted,       \* start() was called
    dqIsAuto,        \* this.isAuto
    dqIdx,           \* this.currentLevelIdx
    dqBad,           \* this.badConditionCount
    dqStable,        \* this.stableCount
    dqCooldown,      \* this.switchCooldownTimer
    dqSwitching,     \* this.isSwitching
    dqHasReader,     \* this.currentReader is set and has a peer connection
    dqPending,       \* the level of the reader that has not fired ontrack yet (-1: none)
    dqTimers,        \* the levels of the pending setTimeout(loadLevel) of onError
    dqCause,         \* what called loadLevel last
    dqTrigRun,       \* the most recent consecutive measured ticks with a downgrade trigger
    dqGoodRun        \* the most recent consecutive measured ticks with a healthy network

dqVars == <<dqStarted, dqIsAuto, dqIdx, dqBad, dqStable, dqCooldown, dqSwitching, dqHasReader,
            dqPending, dqTimers, dqCause, dqTrigRun, dqGoodRun>>

\* ---- the WHEP reader (src/mmxplayer/pk/reader.js, src/mmxplayer/whep/reader.js)
VARIABLES
    rdVariant,       \* which of the two reader.js files the object is built from
    rdState,         \* this.state
    rdPcOpen,        \* this.pc is an open RTCPeerConnection
    rdTimer,         \* the restart timeout is pending
    rdSessionUrl,    \* this.sessionUrl !== null
    rdQueue,         \* this.queuedCandidates
    rdChain,         \* where the promise chain of #start stands
    rdStarts,        \* #start calls so far
    rdCandOf,        \* candidate -> the #start whose peer connection produced it
    rdPatches,       \* the PATCH requests sent: [cands, res]
    rdDeletes        \* DELETE requests sent so far

rdVars == <<rdVariant, rdState, rdPcOpen, rdTimer, rdSessionUrl, rdQueue, rdChain, rdStarts,
            rdCandOf, rdPatches, rdDeletes>>

coreVars == <<fwdVars, simVars, spVars, abrVars, tcVars, nmVars, payVars, mgVars>>
extVars == <<toVars, ssVars, dqVars, rdVars>>
nonToVars == <<coreVars, ssVars, dqVars, rdVars>>
nonSsVars == <<coreVars, toVars, dqVars, rdVars>>
nonDqVars == <<coreVars, toVars, ssVars, rdVars>>
nonRdVars == <<coreVars, toVars, ssVars, dqVars>>

nonFwdVars == <<simVars, spVars, abrVars, tcVars, nmVars, payVars, mgVars, extVars>>
nonSimVars == <<fwdVars, spVars, abrVars, tcVars, nmVars, payVars, mgVars, extVars>>
nonSpVars == <<fwdVars, simVars, abrVars, tcVars, nmVars, payVars, mgVars, extVars>>
nonAbrVars == <<fwdVars, simVars, spVars, tcVars, nmVars, payVars, mgVars, extVars>>
nonTcVars == <<fwdVars, simVars, spVars, abrVars, nmVars, payVars, mgVars, extVars>>
nonNmVars == <<fwdVars, simVars, spVars, abrVars, tcVars, payVars, mgVars, extVars>>
nonPayVars == <<fwdVars, simVars, spVars, abrVars, tcVars, nmVars, mgVars, extVars>>
nonMgVars == <<fwdVars, simVars, spVars, abrVars, tcVars, nmVars, payVars, extVars>>
statVars == <<packetsSent, packetsLost, pcSent>>
unitVars == <<unitsDispatched, pktsDispatched, nilUnits>>

NoSup == [pc |-> "none", err |-> "", conn |-> 0, rdr |-> 0, strm |-> 0]

\* newSRTForwarder / newWebRTCForwarder: a fresh context, everything else zero
InitFwdState ==
    /\ fStream = 0 /\ fReader = 0 /\ fConn = 0
    /\ ctxDone = FALSE
    /\ wg = 0
    /\ lastError = ""
    /\ connected = FALSE
    /\ reconnectCount = 0
    /\ packetsSent = 0 /\ packetsLost = 0
    /\ sup = [i \in SupIds |-> NoSup]
    /\ nSup = 0
    /\ callerPc = [c \in Callers |-> "idle"]
    /\ panicked = FALSE
    /\ streamReaders = [s \in Streams |-> {LocalReader}]
    /\ connOpen = {}
    /\ closes = [c \in ConnIds |-> 0]
    /\ removes = [r \in ReaderIds |-> 0]
    /\ rdrErr = {}
    /\ connFailed = {}
    /\ nReaders = 0 /\ nConns = 0 /\ attempts = 0 /\ dials = 0
    /\ pcSent = [c \in ConnIds |-> 0]
    /\ hist = <<>>
    /\ stopReturned = FALSE
    /\ unitsDispatched = 0 /\ pktsDispatched = 0 /\ nilUnits = 0

\* any target configuration, any remote
InitFwd ==
    /\ kind \in Kinds
    /\ reconnect \in BOOLEAN
    /\ urlOK \in BOOLEAN
    /\ descOK \in BOOLEAN
    /\ remotePlan = "any"
    /\ InitFwdState

\* a valid reconnect-enabled target whose remote refuses the first connection
\* attempt and accepts the later ones
InitReconnect ==
    /\ kind \in Kinds
    /\ reconnect = TRUE
    /\ urlOK = TRUE
    /\ descOK = TRUE
    /\ remotePlan = "refuseOnce"
    /\ InitFwdState

(***************************************************************************)
(* Accessors.                                                              *)
(***************************************************************************)
\* srtForwarder.IsRunning / webrtcForwarder.IsRunning
IsRunning ==
    IF kind = "srt" THEN fStream # 0 ELSE fStream # 0 /\ fConn # 0

\* srtForwarder.GetStats / webrtcForwarder.GetStats
GetStats ==
    LET live == kind = "whip" /\ fConn # 0
    IN [PacketsSent    |-> packetsSent + (IF live THEN pcSent[fConn] ELSE 0),
        PacketsLost    |-> packetsLost,
        LastError      |-> lastError,
        Connected      |-> connected,
        ReconnectCount |-> reconnectCount]

\* the readers this forwarder has attached to stream s
FwdReadersOn(s) == streamReaders[s] \ {LocalReader}
FwdAttached == \E s \in Streams : FwdReadersOn(s) # {}

CallsInProgress == Cardinality({c \in Callers : callerPc[c] # "idle"})

(***************************************************************************)
(* Start                                                                   *)
(***************************************************************************)
StartAlready_NoCheck == FALSE
\* Start: "if f.stream != nil { return already started }"
StartAlready == fStream # 0

\* srtForwarder.Start / webrtcForwarder.Start: the whole body runs under f.mutex
Start(s) ==
    /\ ~panicked
    /\ Len(hist) + CallsInProgress < MaxCalls
    /\ IF StartAlready
       THEN /\ hist' = Append(hist, "start_err")
            /\ UNCHANGED <<fStream, wg, sup, nSup, stopReturned>>
       ELSE /\ fStream' = s
            /\ wg' = wg + 1
            /\ nSup' = nSup + 1
            /\ sup' = [sup EXCEPT ![nSup + 1] =
                         [NoSup EXCEPT !.pc = IF kind = "srt" THEN "loop" ELSE "inner"]]
            /\ hist' = Append(hist, "start")
            /\ stopReturned' = FALSE
    /\ UNCHANGED <<cfgVars, nonFwdVars, fReader, fConn, ctxDone, lastError, connected,
                   reconnectCount, statVars, callerPc, panicked, streamReaders,
                   connOpen, closes, removes, rdrErr, connFailed, nReaders, nConns,
                   attempts, dials, unitVars>>

(***************************************************************************)
(* Stop                                                                    *)
(***************************************************************************)
\* Stop: f.ctxCancel()
StopCancel(c) ==
    /\ ~panicked
    /\ callerPc[c] = "idle"
    /\ Len(hist) + CallsInProgress < MaxCalls
    /\ ctxDone' = TRUE
    /\ callerPc' = [callerPc EXCEPT ![c] = "stop_wait"]
    /\ UNCHANGED <<cfgVars, nonFwdVars, fStream, fReader, fConn, wg, lastError, connected,
                   reconnectCount, statVars, sup, nSup, panicked, streamReaders,
                   connOpen, closes, removes, rdrErr, connFailed, nReaders, nConns,
                   attempts, dials, hist, stopReturned, unitVars>>

WgWaitReturns_NoWait == TRUE
\* Stop: f.wg.Wait() returns once every supervisor has called wg.Done()
WgWaitReturns == wg = 0

StopWait(c) ==
    /\ ~panicked
    /\ callerPc[c] = "stop_wait"
    /\ WgWaitReturns
    /\ callerPc' = [callerPc EXCEPT ![c] = "stop_crit"]
    /\ UNCHANGED <<cfgVars, nonFwdVars, fStream, fReader, fConn, ctxDone, wg, lastError,
                   connected, reconnectCount, statVars, sup, nSup, panicked,
                   streamReaders, connOpen, closes, removes, rdrErr, connFailed,
                   nReaders, nConns, attempts, dials, hist, stopReturned, unitVars>>

\* Stop: the section under f.mutex, then the return
StopCrit(c) ==
    /\ ~panicked
    /\ callerPc[c] = "stop_crit"
    /\ IF fConn # 0
       THEN /\ closes' = [closes EXCEPT ![fConn] = @ + 1]
            /\ connOpen' = connOpen \ {fConn}
       ELSE UNCHANGED <<closes, connOpen>>
    /\ fStream' = 0
    /\ fReader' = 0
    /\ fConn' = 0
    /\ callerPc' = [callerPc EXCEPT ![c] = "idle"]
    /\ hist' = Append(hist, "stop")
    /\ stopReturned' = TRUE
    /\ UNCHANGED <<cfgVars, nonFwdVars, ctxDone, wg, lastError, connected, reconnectCount,
                   statVars, sup, nSup, panicked, streamReaders, removes, rdrErr,
                   connFailed, nReaders, nConns, attempts, dials, unitVars>>

(***************************************************************************)
(* The supervisor run() and the inner run.                                 *)
(***************************************************************************)
envKeep == <<cfgVars, nonFwdVars, callerPc, hist, stopReturned, unitVars, statVars, nSup>>

\* what the remote may answer to a connection attempt: anything, or (plan
\* "refuseOnce") a refusal of the first attempt and acceptance of the later ones
RemoteMay(ok) ==
    IF remotePlan = "refuseOnce" THEN ok = (dials >= 1) ELSE TRUE

\* run(): "defer f.wg.Done()" and return
SupExit(i) ==
    /\ wg' = wg - 1
    /\ sup' = [sup EXCEPT ![i] = [NoSup EXCEPT !.pc = "done"]]

\* srtForwarder.run: the head of the loop, select on f.ctx.Done() with a default
\* that calls runInner; runInner begins with the URL and config validation
SrtLoop(i) ==
    /\ ~panicked
    /\ kind = "srt" /\ sup[i].pc = "loop"
    /\ IF ctxDone
       THEN SupExit(i) /\ UNCHANGED attempts
       ELSE /\ attempts < MaxAttempts
            /\ attempts' = attempts + 1
            /\ sup' = [sup EXCEPT ![i].pc = IF urlOK THEN "dial" ELSE "failed",
                                  ![i].err = IF urlOK THEN "" ELSE "invalid"]
            /\ UNCHANGED wg
    /\ UNCHANGED <<envKeep, fStream, fReader, fConn, ctxDone, lastError, connected,
                   reconnectCount, panicked, streamReaders, connOpen, closes,
                   removes, rdrErr, connFailed, nReaders, nConns, dials>>

\* srtForwarder.runInner: srt.Dial, then f.sconn = sconn; f.connected = true
SrtDial(i) ==
    /\ ~panicked
    /\ kind = "srt" /\ sup[i].pc = "dial"
    /\ \E ok \in BOOLEAN :
         /\ RemoteMay(ok)
         /\ dials' = dials + 1
         /\ IF ok
            THEN /\ nConns' = nConns + 1
                 /\ connOpen' = connOpen \cup {nConns + 1}
                 /\ fConn' = nConns + 1
                 /\ connected' = TRUE
                 /\ sup' = [sup EXCEPT ![i].pc = "setup", ![i].conn = nConns + 1]
            ELSE /\ sup' = [sup EXCEPT ![i].pc = "failed", ![i].err = "dial"]
                 /\ UNCHANGED <<nConns, connOpen, fConn, connected>>
    /\ UNCHANGED <<envKeep, fStream, fReader, ctxDone, wg, lastError,
                   reconnectCount, panicked, streamReaders, closes, removes,
                   rdrErr, connFailed, nReaders, attempts>>

\* srtForwarder.runInner: f.reader = &stream.Reader{}; mpegts.FromStream(...)
SrtSetup(i) ==
    /\ ~panicked
    /\ kind = "srt" /\ sup[i].pc = "setup"
    /\ nReaders' = nReaders + 1
    /\ fReader' = nReaders + 1
    /\ sup' = [sup EXCEPT ![i].pc = IF descOK THEN "attach" ELSE "close",
                          ![i].err = IF descOK THEN "" ELSE "setup"]
    /\ UNCHANGED <<envKeep, fStream, fConn, ctxDone, wg, lastError, connected,
                   reconnectCount, panicked, streamReaders, connOpen, closes,
                   removes, rdrErr, connFailed, nConns, attempts, dials>>

\* runInner: f.stream.AddReader(f.reader); defer f.stream.RemoveReader(f.reader)
\* (the defer captures the stream and the reader); a nil f.stream panics
Attach(i) ==
    /\ ~panicked
    /\ sup[i].pc = "attach"
    /\ IF fStream = 0
       THEN /\ panicked' = TRUE
            /\ UNCHANGED <<streamReaders, sup>>
       ELSE /\ streamReaders' = [streamReaders EXCEPT ![fStream] = @ \cup {fReader}]
            /\ sup' = [sup EXCEPT ![i].pc = IF kind = "srt" THEN "wait" ELSE "setconn",
                                  ![i].rdr = fReader, ![i].strm = fStream]
            /\ UNCHANGED panicked
    /\ UNCHANGED <<envKeep, fStream, fReader, fConn, ctxDone, wg, lastError,
                   connected, reconnectCount, connOpen, closes, removes, rdrErr,
                   connFailed, nReaders, nConns, attempts, dials>>

\* runInner: the final select, on the error channel and on f.ctx.Done()
Wait(i) ==
    /\ ~panicked
    /\ sup[i].pc = "wait"
    /\ \/ /\ IF kind = "srt" THEN sup[i].rdr \in rdrErr ELSE sup[i].conn \in connFailed
          /\ sup' = [sup EXCEPT ![i].pc = IF kind = "srt" THEN "detach" ELSE "close",
                                ![i].err = "transport"]
       \/ /\ ctxDone
          /\ sup' = [sup EXCEPT ![i].pc = IF kind = "srt" THEN "detach" ELSE "close",
                                ![i].err = ""]
    /\ UNCHANGED <<envKeep, fStream, fReader, fConn, ctxDone, wg, lastError,
                   connected, reconnectCount, panicked, streamReaders, connOpen,
                   closes, removes, rdrErr, connFailed, nReaders, nConns, attempts,
                   dials>>

DetachReader_Leak(i) == UNCHANGED <<streamReaders, removes>>
\* the deferred f.stream.RemoveReader(f.reader)
DetachReader(i) ==
    /\ streamReaders' = [streamReaders EXCEPT ![sup[i].strm] = @ \ {sup[i].rdr}]
    /\ removes' = [removes EXCEPT ![sup[i].rdr] = @ + 1]

\* where run() continues after runInner has returned
AfterInner(i) ==
    IF kind = "srt" THEN (IF sup[i].err = "" THEN "loop" ELSE "failed") ELSE "after"

Detach(i) ==
    /\ ~panicked
    /\ sup[i].pc = "detach"
    /\ DetachReader(i)
    /\ sup' = [sup EXCEPT ![i].pc = IF kind = "srt" THEN "close" ELSE AfterInner(i)]
    /\ UNCHANGED <<envKeep, fStream, fReader, fConn, ctxDone, wg, lastError,
                   connected, reconnectCount, panicked, connOpen, closes, rdrErr,
                   connFailed, nReaders, nConns, attempts, dials>>

SconnAfterClose_Kept(i) == fConn
\* the deferred close ends with "f.sconn = nil" / "f.whipClient = nil"
SconnAfterClose(i) == 0

\* the deferred close: sconn.Close() / whipClient.Close(), then under the mutex
\* f.sconn = nil (f.whipClient = nil) and f.connected = false
Close(i) ==
    /\ ~panicked
    /\ sup[i].pc = "close"
    /\ closes' = [closes EXCEPT ![sup[i].conn] = @ + 1]
    /\ connOpen' = connOpen \ {sup[i].conn}
    /\ fConn' = SconnAfterClose(i)
    /\ connected' = FALSE
    /\ sup' = [sup EXCEPT ![i].pc = IF kind = "srt" THEN AfterInner(i) ELSE "detach"]
    /\ UNCHANGED <<envKeep, fStream, fReader, ctxDone, wg, lastError,
                   reconnectCount, panicked, streamReaders, removes, rdrErr,
                   connFailed, nReaders, nConns, attempts, dials>>

ShouldReconnect_Never == FALSE
\* run(): "if f.config.Reconnect" / "if !f.config.Reconnect { return }"
ShouldReconnect == reconnect

\* srtForwarder.run: "if err != nil": latch the error, then reconnect or return
SrtFailed(i) ==
    /\ ~panicked
    /\ kind = "srt" /\ sup[i].pc = "failed"
    /\ lastError' = sup[i].err
    /\ connected' = FALSE
    /\ IF ShouldReconnect
       THEN /\ reconnectCount' = reconnectCount + 1
            /\ sup' = [sup EXCEPT ![i].pc = "sleep", ![i].err = ""]
            /\ UNCHANGED wg
       ELSE SupExit(i) /\ UNCHANGED reconnectCount
    /\ UNCHANGED <<envKeep, fStream, fReader, fConn, ctxDone, panicked,
                   streamReaders, connOpen, closes, removes, rdrErr, connFailed,
                   nReaders, nConns, attempts, dials>>

\* srtForwarder.run: time.Sleep(ReconnectDelay); continue
SrtSleep(i) ==
    /\ ~panicked
    /\ kind = "srt" /\ sup[i].pc = "sleep"
    /\ sup' = [sup EXCEPT ![i].pc = "loop"]
    /\ UNCHANGED <<envKeep, fStream, fReader, fConn, ctxDone, wg, lastError,
                   connected, reconnectCount, panicked, streamReaders, connOpen,
                   closes, removes, rdrErr, connFailed, nReaders, nConns, attempts,
                   dials>>

WhipAfterTracks_AttachFirst == "attach"
\* webrtcForwarder.runInner: what follows the track setup is the creation and
\* the initialisation of the WHIP client; AddReader comes after it
WhipAfterTracks == "init"

\* webrtcForwarder.runInner up to webrtc.FromStream: URL checks, f.reader =
\* &stream.Reader{}, then FromStream(f.stream.Desc, ...); a nil f.stream panics
WhipInner(i) ==
    /\ ~panicked
    /\ kind = "whip" /\ sup[i].pc = "inner"
    /\ attempts < MaxAttempts
    /\ attempts' = attempts + 1
    /\ IF ~urlOK
       THEN /\ sup' = [sup EXCEPT ![i].pc = "after", ![i].err = "invalid"]
            /\ UNCHANGED <<fReader, nReaders, panicked>>
       ELSE /\ nReaders' = nReaders + 1
            /\ fReader' = nReaders + 1
            /\ IF fStream = 0
               THEN panicked' = TRUE /\ UNCHANGED sup
               ELSE /\ sup' = [sup EXCEPT ![i].pc = IF descOK THEN WhipAfterTracks ELSE "after",
                                          ![i].err = IF descOK THEN "" ELSE "setup"]
                    /\ UNCHANGED panicked
    /\ UNCHANGED <<envKeep, fStream, fConn, ctxDone, wg, lastError, connected,
                   reconnectCount, streamReaders, connOpen, closes, removes,
                   rdrErr, connFailed, nConns, dials>>

\* whipClient.Initialize(f.ctx): the HTTP exchange fails once f.ctx is cancelled
WhipInitFailsOnCancel == ctxDone

\* webrtcForwarder.runInner: whipClient.Initialize(f.ctx)
WhipInit(i) ==
    /\ ~panicked
    /\ kind = "whip" /\ sup[i].pc = "init"
    /\ IF WhipInitFailsOnCancel
       THEN /\ sup' = [sup EXCEPT ![i].pc = "after", ![i].err = "init"]
            /\ UNCHANGED <<nConns, connOpen, dials>>
       ELSE \E ok \in BOOLEAN :
              /\ RemoteMay(ok)
              /\ dials' = dials + 1
              /\ IF ok
                 THEN /\ nConns' = nConns + 1
                      /\ connOpen' = connOpen \cup {nConns + 1}
                      /\ sup' = [sup EXCEPT ![i].pc = "attach", ![i].conn = nConns + 1]
                 ELSE /\ sup' = [sup EXCEPT ![i].pc = "after", ![i].err = "init"]
                      /\ UNCHANGED <<nConns, connOpen>>
    /\ UNCHANGED <<envKeep, fStream, fReader, fConn, ctxDone, wg, lastError,
                   connected, reconnectCount, panicked, streamReaders, closes,
                   removes, rdrErr, connFailed, nReaders, attempts>>

\* webrtcForwarder.runInner: f.whipClient = whipClient; f.connected = true
WhipSetConn(i) ==
    /\ ~panicked
    /\ kind = "whip" /\ sup[i].pc = "setconn"
    /\ fConn' = sup[i].conn
    /\ connected' = TRUE
    /\ sup' = [sup EXCEPT ![i].pc = "wait"]
    /\ UNCHANGED <<envKeep, fStream, fReader, ctxDone, wg, lastError,
                   reconnectCount, panicked, streamReaders, connOpen, closes,
                   removes, rdrErr, connFailed, nReaders, nConns, attempts, dials>>

\* webrtcForwarder.run after runInner: latch the error, then leave on a
\* cancelled context or when reconnect is off
WhipAfter(i) ==
    /\ ~panicked
    /\ kind = "whip" /\ sup[i].pc = "after"
    /\ IF sup[i].err # ""
       THEN lastError' = sup[i].err /\ connected' = FALSE
       ELSE UNCHANGED <<lastError, connected>>
    /\ IF ctxDone \/ ~ShouldReconnect
       THEN SupExit(i)
       ELSE sup' = [sup EXCEPT ![i].pc = "sleep", ![i].err = ""] /\ UNCHANGED wg
    /\ UNCHANGED <<envKeep, fStream, fReader, fConn, ctxDone, reconnectCount,
                   panicked, streamReaders, connOpen, closes, removes, rdrErr,
                   connFailed, nReaders, nConns, attempts, dials>>

\* webrtcForwarder.run: select on f.ctx.Done() and time.After(ReconnectDelay)
WhipSleep(i) ==
    /\ ~panicked
    /\ kind = "whip" /\ sup[i].pc = "sleep"
    /\ \/ ctxDone /\ SupExit(i) /\ UNCHANGED reconnectCount
       \/ /\ reconnectCount' = reconnectCount + 1
          /\ sup' = [sup EXCEPT ![i].pc = "inner"]
          /\ UNCHANGED wg
    /\ UNCHANGED <<envKeep, fStream, fReader, fConn, ctxDone, lastError, connected,
                   panicked, streamReaders, connOpen, closes, removes, rdrErr,
                   connFailed, nReaders, nConns, attempts, dials>>

(***************************************************************************)
(* The environment: units published on the stream, the remote failing.     *)
(***************************************************************************)
\* the stream dispatches a unit of n RTP packets to the forwarder's reader r,
\* whose callbacks were registered by mpegts.FromStream / webrtc.FromStream.
\* No statement of the forwarder adds to packetsSent or packetsLost.
DeliverUnit(s, r, n, nilPayload) ==
    /\ ~panicked
    /\ r \in FwdReadersOn(s)
    /\ unitsDispatched < MaxUnits
    /\ unitsDispatched' = unitsDispatched + 1
    /\ IF nilPayload
       THEN /\ nilUnits' = nilUnits + 1
            /\ UNCHANGED <<pktsDispatched, rdrErr, pcSent>>
       ELSE /\ pktsDispatched' = pktsDispatched + n
            /\ UNCHANGED nilUnits
            /\ \E written \in BOOLEAN :
                 IF written
                 THEN /\ pcSent' = IF kind = "whip" /\ fConn # 0
                                   THEN [pcSent EXCEPT ![fConn] = @ + n] ELSE pcSent
                      /\ UNCHANGED rdrErr
                 ELSE /\ rdrErr' = IF kind = "srt" THEN rdrErr \cup {r} ELSE rdrErr
                      /\ UNCHANGED pcSent
    /\ UNCHANGED <<packetsSent, packetsLost>>
    /\ UNCHANGED <<cfgVars, nonFwdVars, fStream, fReader, fConn, ctxDone, wg, lastError,
                   connected, reconnectCount, sup, nSup, callerPc, panicked,
                   streamReaders, connOpen, closes, removes, connFailed, nReaders,
                   nConns, attempts, dials, hist, stopReturned>>

\* the WHIP peer connection fails: whipClient.Wait() has an error to return
RemoteFail(c) ==
    /\ ~panicked
    /\ kind = "whip"
    /\ c \in connOpen \ connFailed
    /\ connFailed' = connFailed \cup {c}
    /\ UNCHANGED <<cfgVars, nonFwdVars, fStream, fReader, fConn, ctxDone, wg, lastError,
                   connected, reconnectCount, statVars, sup, nSup, callerPc,
                   panicked, streamReaders, connOpen, closes, removes, rdrErr,
                   nReaders, nConns, attempts, dials, hist, stopReturned, unitVars>>

\* the steps of supervisor goroutines
SupStep ==
    \/ \E i \in SupIds : SrtLoop(i)
    \/ \E i \in SupIds : SrtDial(i)
    \/ \E i \in SupIds : SrtSetup(i)
    \/ \E i \in SupIds : SrtFailed(i)
    \/ \E i \in SupIds : SrtSleep(i)
    \/ \E i \in SupIds : WhipInner(i)
    \/ \E i \in SupIds : WhipInit(i)
    \/ \E i \in SupIds : WhipSetConn(i)
    \/ \E i \in SupIds : WhipAfter(i)
    \/ \E i \in SupIds : WhipSleep(i)
    \/ \E i \in SupIds : Attach(i)
    \/ \E i \in SupIds : Wait(i)
    \/ \E i \in SupIds : Detach(i)
    \/ \E i \in SupIds : Close(i)

EnvStep ==
    \/ \E s \in Streams, r \in ReaderIds, n \in UnitSizes, np \in BOOLEAN :
         DeliverUnit(s, r, n, np)
    \/ \E c \in ConnIds : RemoteFail(c)

NextFwd ==
    \/ \E s \in Streams : Start(s)
    \/ \E c \in Callers : StopCancel(c)
    \/ \E c \in Callers : StopWait(c)
    \/ \E c \in Callers : StopCrit(c)
    \/ SupStep
    \/ EnvStep

\* the reconnect scenario: the host starts the forwarder and never stops it
NextReconnect ==
    \/ \E s \in Streams : Start(s)
    \/ SupStep
    \/ EnvStep

(***************************************************************************)
(* Part II: the simulcast aggregation source.                              *)
(***************************************************************************)
\* units published upstream while the source is observed
MaxSimUnits == 2
\* maxWaitTime in poll intervals (10 s / 100 ms in the code, scaled down)
MaxWaitPolls == 2

SimPaths == {"h", "m", "l"}
\* SSRC values: three of them stand for the 32-bit range
SsrcVals == {0, 1, 2147483647}

In(p, l, ty) == [path |-> p, layer |-> l, type |-> ty]
\* s.config.Inputs: the configured input layers
SimConfigs ==
    { <<In("h", "high", "video"), In("m", "medium", "video"), In("l", "low", "video")>>,
      <<In("h", "high", "video"), In("m", "", "audio")>>,
      <<In("h", "high", "video"), In("h", "", "audio")>>,
      <<In("h", "", "audio"), In("h", "high", "video")>> }

Media(ty, fs) == [type |-> ty, fmts |-> fs]
\* the session descriptions an upstream path may publish
DescChoices ==
    { <<Media("video", <<"h264">>)>>,
      <<Media("video", <<"h264">>), Media("audio", <<"opus">>)>> }

\* the SSRC the publisher of a path stamps on its packets
UpSsrc(p) == CASE p = "h" -> 0 [] p = "m" -> 1 [] OTHER -> 0

\* what a publisher puts in an RTP packet: sequence number, timestamp, payload
PktA == [seq |-> 7, ts |-> 3, payload |-> <<1, 2>>]
PktB == [seq |-> 65535, ts |-> 0, payload |-> <<>>]
\* the packets of one published unit
UnitChoices == {<<PktA>>, <<PktB, PktA>>}

simConnVars == <<simInputStreams, simReaders, simLayer, simAlloc, upReaders,
                 simNReaders>>
simPktVars == <<simHeap, simPub, simOut, simUnits>>
simWaitVars == <<upPopulated, simElapsed, simTimer, simMissed, simTimedOut>>
simRetVars == <<simRunErr, simSetReadyCalled>>

SimReaderIds == UNION {1..Len(c) : c \in SimConfigs}
NoLayer == [set |-> FALSE, ssrc |-> 0, layer |-> ""]
NoCb == [video |-> 0, audio |-> 0]

\* New(): empty maps, a fresh context
InitSimState ==
    /\ simPc = "idle"
    /\ simK = 1
    /\ simInputStreams = {}
    /\ simReaders = [p \in SimPaths |-> 0]
    /\ simLayer = [p \in SimPaths |-> NoLayer]
    /\ simAlloc = <<>>
    /\ upReaders = [p \in SimPaths |-> {}]
    /\ simNReaders = 0
    /\ simCb = [r \in SimReaderIds |-> NoCb]
    /\ simTask = <<>>
    /\ paramsCtxDone = FALSE
    /\ simReady = FALSE
    /\ outDesc = <<>>
    /\ simHeap = <<>>
    /\ simPub = <<>>
    /\ simOut = <<>>
    /\ simUnits = 0
    /\ simElapsed = 0
    /\ simTimer = 0
    /\ simMissed = FALSE
    /\ simTimedOut = FALSE
    /\ simRunErr = ""
    /\ simSetReadyCalled = FALSE

\* the upstream paths are published before Run is called
InitSim ==
    /\ simCfg \in SimConfigs
    /\ \E d \in DescChoices : simDesc = [p \in SimPaths |-> d]
    /\ upPopulated = [p \in SimPaths |-> TRUE]
    /\ InitSimState

\* session descriptions with several medias of a type and several formats in
\* a media
DescChoicesWide ==
    DescChoices \cup
    { <<Media("video", <<"h264">>), Media("video", <<"h264">>)>>,
      <<Media("video", <<"vp8", "h264">>), Media("audio", <<"opus">>), Media("audio", <<"g711", "opus">>)>>,
      <<Media("audio", <<"opus">>)>> }

\* the upstream paths are published, each with a description of its own
InitSimDesc ==
    /\ simCfg \in SimConfigs
    /\ simDesc \in [SimPaths -> DescChoicesWide]
    /\ upPopulated = [p \in SimPaths |-> TRUE]
    /\ InitSimState

\* Run is called before the upstream paths are published
InitSimWait ==
    /\ simCfg \in SimConfigs
    /\ \E d \in DescChoices : simDesc = [p \in SimPaths |-> d]
    /\ upPopulated = [p \in SimPaths |-> FALSE]
    /\ InitSimState

\* s.ctx is created in New and s.ctxCancel is called nowhere
SimCtxDone == FALSE

\* Run is called by the host
SimRun ==
    /\ simPc = "idle"
    /\ simPc' = "connect"
    /\ UNCHANGED <<nonSimVars, simWaitVars, simRetVars, simCfg, simDesc, simK, simConnVars, simCb, simTask, paramsCtxDone,
                   simReady, outDesc, simPktVars>>

\* randUint32: any 32-bit value
AllocSSRC(v) == v \in SsrcVals

\* the input connectInputs is at
WaitPath == simCfg[simK].path

\* the publisher of the awaited path makes its description hold a media
UpPublishDesc ==
    /\ simPc \in {"connect", "sleep", "woke"}
    /\ simK <= Len(simCfg)
    /\ ~upPopulated[WaitPath]
    /\ upPopulated' = [upPopulated EXCEPT ![WaitPath] = TRUE]
    /\ UNCHANGED <<nonSimVars, simCfg, simDesc, simPc, simK, simConnVars, simCb, simTask,
                   paramsCtxDone, simReady, outDesc, simPktVars, simElapsed, simTimer,
                   simMissed, simTimedOut, simRetVars>>

\* one poll interval of time passes while connectInputs waits
SimClockTick ==
    /\ simPc \in {"sleep", "woke"}
    /\ simElapsed < MaxWaitPolls + 2
    /\ simElapsed' = simElapsed + 1
    /\ simMissed' = (simMissed \/ (simElapsed + 1 > MaxWaitPolls /\ ~upPopulated[WaitPath]))
    /\ UNCHANGED <<nonSimVars, simCfg, simDesc, simPc, simK, simConnVars, simCb, simTask,
                   paramsCtxDone, simReady, outDesc, simPktVars, upPopulated, simTimer,
                   simTimedOut, simRetVars>>

\* connectInputs: "for strm.Desc == nil || len(strm.Desc.Medias) == 0" holds and
\* the select starts time.After(100 ms)
SimWaitSleep ==
    /\ simPc \in {"connect", "woke"}
    /\ simK <= Len(simCfg)
    /\ ~upPopulated[WaitPath]
    /\ simPc' = "sleep"
    /\ simTimer' = simElapsed
    /\ UNCHANGED <<nonSimVars, simCfg, simDesc, simK, simConnVars, simCb, simTask,
                   paramsCtxDone, simReady, outDesc, simPktVars, upPopulated, simElapsed,
                   simMissed, simTimedOut, simRetVars>>

WaitExpired_Never(e) == FALSE
\* connectInputs: "time.Since(waitStart) > maxWaitTime"
WaitExpired(e) == e > MaxWaitPolls

\* connectInputs: the timer fires and the deadline is tested; past it
\* connectInputs returns an error, which Run returns before its first defer
SimWaitWake ==
    /\ simPc = "sleep"
    /\ simElapsed >= simTimer + 1
    /\ simTimedOut' = (simTimedOut \/ (simElapsed > MaxWaitPolls /\ ~upPopulated[WaitPath]))
    /\ IF WaitExpired(simElapsed)
       THEN simPc' = "done" /\ simRunErr' = "connect"
       ELSE simPc' = "woke" /\ UNCHANGED simRunErr
    /\ UNCHANGED <<nonSimVars, simCfg, simDesc, simK, simConnVars, simCb, simTask,
                   paramsCtxDone, simReady, outDesc, simPktVars, upPopulated, simElapsed,
                   simTimer, simMissed, simSetReadyCalled>>

\* connectInputs, the rest of the iteration for input simK once the awaited
\* description holds a media: the reader is added to the upstream stream, the
\* maps are keyed by the path
SimConnect ==
    /\ simPc \in {"connect", "woke"}
    /\ simK <= Len(simCfg)
    /\ upPopulated[WaitPath]
    /\ LET p == simCfg[simK].path
           r == simNReaders + 1
       IN /\ simNReaders' = r
          /\ upReaders' = [upReaders EXCEPT ![p] = @ \cup {r}]
          /\ simInputStreams' = simInputStreams \cup {p}
          /\ simReaders' = [simReaders EXCEPT ![p] = r]
          /\ \E v \in SsrcVals :
               /\ AllocSSRC(v)
               /\ simLayer' = [simLayer EXCEPT ![p] =
                                 [set |-> TRUE, ssrc |-> v, layer |-> simCfg[simK].layer]]
               /\ simAlloc' = Append(simAlloc, v)
    /\ simK' = simK + 1
    /\ simPc' = IF simK = Len(simCfg) THEN "setready" ELSE "connect"
    /\ simElapsed' = 0
    /\ simTimer' = 0
    /\ UNCHANGED <<nonSimVars, simCfg, simDesc, simCb, simTask, paramsCtxDone, simReady, outDesc,
                   simPktVars, upPopulated, simMissed, simTimedOut, simRetVars>>

\* connectInputs returns an error of PathManager.AddReader (the path is
\* missing): Run returns it before "defer s.disconnectInputs()" is reached
SimConnectFail ==
    /\ simPc = "connect"
    /\ simK <= Len(simCfg)
    /\ simPc' = "done"
    /\ simRunErr' = "connect"
    /\ UNCHANGED <<nonSimVars, simCfg, simDesc, simK, simConnVars, simCb, simTask, paramsCtxDone,
                   simReady, outDesc, simPktVars, simWaitVars, simSetReadyCalled>>

HasFmt(m, f) == \E k \in 1..Len(m.fmts) : m.fmts[k] = f

\* the medias createStreamDescription appends for the first input of the type
MediasFor(ty, f) ==
    LET idx == {k \in 1..Len(simCfg) : simCfg[k].type = ty}
    IN IF idx = {} THEN <<>>
       ELSE LET first == CHOOSE k \in idx : \A j \in idx : k <= j
                p == simCfg[first].path
                found == SelectSeq(simDesc[p], LAMBDA m : m.type = ty /\ HasFmt(m, f))
            IN IF p \in simInputStreams
               THEN [k \in 1..Len(found) |-> Media(ty, <<f>>)]
               ELSE <<>>

\* createStreamDescription
CreateStreamDescription == MediasFor("video", "h264") \o MediasFor("audio", "opus")

\* Run: SetReady with the synthetic description; on an error Run returns and
\* the deferred disconnectInputs runs
SimSetReady ==
    /\ simPc = "setready"
    /\ \E ok \in BOOLEAN :
         IF ok
         THEN /\ outDesc' = CreateStreamDescription
              /\ simReady' = TRUE
              /\ simPc' = "forward"
              /\ UNCHANGED simRunErr
         ELSE /\ simPc' = "disconnect"
              /\ simRunErr' = "setready"
              /\ UNCHANGED <<outDesc, simReady>>
    /\ simSetReadyCalled' = TRUE
    /\ UNCHANGED <<nonSimVars, simWaitVars, simCfg, simDesc, simK, simConnVars, simCb, simTask, paramsCtxDone,
                   simPktVars>>

\* startDataForwarding: one goroutine per input
SimStartForwarding ==
    /\ simPc = "forward"
    /\ simTask' = [k \in 1..Len(simCfg) |-> "start"]
    /\ simPc' = "running"
    /\ UNCHANGED <<nonSimVars, simWaitVars, simRetVars, simCfg, simDesc, simK, simConnVars, simCb, paramsCtxDone, simReady,
                   outDesc, simPktVars>>

\* the first media of the type in a description and whether it holds the format
FirstHas(desc, ty, f) ==
    LET idx == {k \in 1..Len(desc) : desc[k].type = ty}
    IN /\ idx # {}
       /\ HasFmt(desc[CHOOSE k \in idx : \A j \in idx : k <= j], f)

\* forwardInput -> forwardVideo / forwardAudio: look the stream, the reader and
\* the layer up by the input's path, register the data callback on the reader,
\* then block on s.ctx.Done()
SimForwardInput(i) ==
    /\ i \in 1..Len(simTask)
    /\ simTask[i] = "start"
    /\ LET p == simCfg[i].path
           ty == simCfg[i].type
           r == simReaders[p]
       IN IF p \notin simInputStreams \/ r = 0
          THEN /\ simTask' = [simTask EXCEPT ![i] = "done"]
               /\ UNCHANGED simCb
          ELSE IF FirstHas(simDesc[p], ty, IF ty = "video" THEN "h264" ELSE "opus")
          THEN /\ simCb' = [simCb EXCEPT ![r][ty] = i]
               /\ simTask' = [simTask EXCEPT ![i] = "waiting"]
          ELSE /\ simTask' = [simTask EXCEPT ![i] = "done"]
               /\ UNCHANGED simCb
    /\ UNCHANGED <<nonSimVars, simWaitVars, simRetVars, simCfg, simDesc, simPc, simK, simConnVars, paramsCtxDone, simReady,
                   outDesc, simPktVars>>

\* the host cancels params.Context
SimCancel ==
    /\ simPc \in {"connect", "setready", "forward", "running"}
    /\ ~paramsCtxDone
    /\ paramsCtxDone' = TRUE
    /\ UNCHANGED <<nonSimVars, simWaitVars, simRetVars, simCfg, simDesc, simPc, simK, simConnVars, simCb, simTask, simReady,
                   outDesc, simPktVars>>

\* Run: the select returns; the deferred SetNotReady runs first
SimSetNotReady ==
    /\ simPc = "running"
    /\ paramsCtxDone \/ SimCtxDone
    /\ simReady' = FALSE
    /\ simPc' = "disconnect"
    /\ UNCHANGED <<nonSimVars, simWaitVars, simRetVars, simCfg, simDesc, simK, simConnVars, simCb, simTask, paramsCtxDone,
                   outDesc, simPktVars>>

\* disconnectInputs: remove each reader of s.readers from its stream, then
\* empty the maps
SimDisconnect ==
    /\ simPc = "disconnect"
    /\ upReaders' = [p \in SimPaths |->
                       IF p \in simInputStreams /\ simReaders[p] # 0
                       THEN upReaders[p] \ {simReaders[p]} ELSE upReaders[p]]
    /\ simInputStreams' = {}
    /\ simReaders' = [p \in SimPaths |-> 0]
    /\ simPc' = "done"
    /\ UNCHANGED <<nonSimVars, simWaitVars, simRetVars, simCfg, simDesc, simK, simLayer, simAlloc, simNReaders, simCb,
                   simTask, paramsCtxDone, simReady, outDesc, simPktVars>>


\* forwardVideo / forwardAudio: "pkt := &rtp.Packet{Header: originalPkt.Header,
\* Payload: make([]byte, len)}; copy(pkt.Payload, originalPkt.Payload)"
ClonePacket(pk) ==
    [seq |-> pk.seq, ts |-> pk.ts, ssrc |-> pk.ssrc,
     payload |-> [k \in 1..Len(pk.payload) |-> pk.payload[k]]]

StampVideo_InPlace(heap, id, ssrc) ==
    [heap |-> [heap EXCEPT ![id].ssrc = ssrc], id |-> id]
\* forwardVideo: clone the packet, then "pkt.SSRC = layerInfo.SSRC" on the clone
StampVideo(heap, id, ssrc) ==
    [heap |-> Append(heap, [ClonePacket(heap[id]) EXCEPT !.ssrc = ssrc]),
     id |-> Len(heap) + 1]

\* forwardAudio: clone the packet, the SSRC stays
CloneAudio(heap, id) ==
    [heap |-> Append(heap, ClonePacket(heap[id])), id |-> Len(heap) + 1]

\* the layerInfo forwardInput looked up for input i: s.layerMapping[input.Path]
LayerOf(i) == simLayer[simCfg[i].path]

FmtOf(ty) == IF ty = "video" THEN "h264" ELSE "opus"

\* the data callback of input i on the packets ids of one unit: each packet is
\* cloned (and stamped, for video) and written to the output stream when the
\* output description holds the media and format
RECURSIVE ForwardPkts(_, _, _, _)
ForwardPkts(st, ids, i, ty) ==
    IF ids = <<>> THEN st
    ELSE LET id == Head(ids)
             res == IF ty = "video" THEN StampVideo(st.heap, id, LayerOf(i).ssrc)
                    ELSE CloneAudio(st.heap, id)
             out2 == IF FirstHas(outDesc, ty, FmtOf(ty))
                     THEN Append(st.out, [input |-> i, src |-> id, id |-> res.id,
                                          media |-> ty])
                     ELSE st.out
         IN ForwardPkts([heap |-> res.heap, out |-> out2], Tail(ids), i, ty)

\* the publisher of path p writes a unit of media type ty and the stream hands
\* it to the data callback registered on an attached reader (units that reach
\* no callback of the source leave no trace in it)
SimPublish(p, ty, unit, nilPayload) ==
    /\ simUnits < MaxSimUnits
    /\ FirstHas(simDesc[p], ty, FmtOf(ty))
    /\ simUnits' = simUnits + 1
    /\ LET base == Len(simHeap)
           up == [k \in 1..Len(unit) |->
                    [seq |-> unit[k].seq, ts |-> unit[k].ts, ssrc |-> UpSsrc(p),
                     payload |-> unit[k].payload]]
           ids == [k \in 1..Len(unit) |-> base + k]
           heap1 == simHeap \o up
           R == {r \in upReaders[p] : simCb[r][ty] # 0}
       IN /\ R # {}
          /\ simPub' = simPub \o [k \in 1..Len(unit) |-> [id |-> ids[k], pkt |-> up[k]]]
          /\ IF nilPayload \/ SimCtxDone
             THEN simHeap' = heap1 /\ UNCHANGED simOut
             ELSE LET r == CHOOSE x \in R : TRUE
                      st == ForwardPkts([heap |-> heap1, out |-> simOut], ids,
                                        simCb[r][ty], ty)
                  IN simHeap' = st.heap /\ simOut' = st.out
    /\ UNCHANGED <<nonSimVars, simWaitVars, simRetVars, simCfg, simDesc, simPc, simK, simConnVars, simCb, simTask,
                   paramsCtxDone, simReady, outDesc>>

\* Run up to the return of SetReady, the upstream paths publishing meanwhile
NextSimWait ==
    \/ SimRun
    \/ UpPublishDesc
    \/ SimClockTick
    \/ SimWaitSleep
    \/ SimWaitWake
    \/ SimConnect
    \/ SimConnectFail
    \/ SimSetReady

\* Run up to SetReady
NextSimDesc ==
    \/ SimRun
    \/ SimConnect
    \/ SimConnectFail
    \/ SimSetReady

NextSim ==
    \/ SimRun
    \/ SimConnect
    \/ SimConnectFail
    \/ SimSetReady
    \/ SimStartForwarding
    \/ \E i \in SimReaderIds : SimForwardInput(i)
    \/ SimCancel
    \/ SimSetNotReady
    \/ SimDisconnect
    \/ \E p \in SimPaths, ty \in {"video", "audio"}, u \in UnitChoices, np \in BOOLEAN :
         SimPublish(p, ty, u, np)

(***************************************************************************)
(* Part III: the simulcast player, src/mmxplayer/mmxplayer.js, and its     *)
(* WHEP reader, src/mmxplayer/whep/reader.js.                              *)
(***************************************************************************)
\* readers one player creates while it is observed
MaxSpReaders == 3

\* SIMULCAST_LEVELS, by id; the level indexes start at 0
SpLevelIds == <<"high", "medium", "low", "audio">>
SpLevels == 0..(Len(SpLevelIds) - 1)
SpLastLevel == Len(SpLevelIds) - 1
SpReaderIds == 1..MaxSpReaders

NoSpReader == [state |-> "none", level |-> 0, tracked |-> FALSE]

\* the player's constructor
InitSp ==
    /\ spReaders = [r \in SpReaderIds |-> NoSpReader]
    /\ spNReaders = 0
    /\ spCurrentReader = 0
    /\ spCurrentLevelIdx = 0
    /\ spIsAuto = TRUE
    /\ spIsSwitching = FALSE
    /\ spCooldown = FALSE
    /\ spTimers = {}
    /\ spStarted = FALSE

\* a reader that was created and on which close() was not called
SpOpen(rs, r) == rs[r].state \in {"running", "restarting"}

\* loadLevel(index) returns at once: "isSwitching && currentLevelIdx === index"
SpLoadBlocked(index) == spIsSwitching /\ spCurrentLevelIdx = index

\* loadLevel(index): close this.currentReader if there is one, then create the
\* new reader, whose constructor starts the WHEP session
SpLoadLevel(index) ==
    IF SpLoadBlocked(index)
    THEN UNCHANGED <<spReaders, spNReaders, spCurrentReader, spIsSwitching>>
    ELSE /\ spNReaders < MaxSpReaders
         /\ spIsSwitching' = TRUE
         /\ spCurrentReader' = 0
         /\ spNReaders' = spNReaders + 1
         /\ spReaders' =
              [r \in SpReaderIds |->
                 IF r = spNReaders + 1
                 THEN [state |-> "running", level |-> index, tracked |-> FALSE]
                 ELSE IF r = spCurrentReader
                 THEN [spReaders[r] EXCEPT !.state = "closed"]
                 ELSE spReaders[r]]

\* start(): currentLevelIdx = 0, loadLevel(0), the stats monitor is started
SpStart ==
    /\ ~spStarted
    /\ spStarted' = TRUE
    /\ SpLoadBlocked(0) = FALSE
    /\ spCurrentLevelIdx' = 0
    /\ SpLoadLevel(0)
    /\ UNCHANGED <<nonSpVars, spIsAuto, spCooldown, spTimers>>

\* manualSwitch('auto')
SpManualAuto ==
    /\ spStarted
    /\ ~spIsAuto
    /\ spIsAuto' = TRUE
    /\ UNCHANGED <<nonSpVars, spReaders, spNReaders, spCurrentReader, spCurrentLevelIdx,
                   spIsSwitching, spCooldown, spTimers, spStarted>>

\* manualSwitch(levelId) for the id of level idx
SpManualSwitch(idx) ==
    /\ spStarted
    /\ spIsAuto' = FALSE
    /\ SpLoadLevel(idx)
    /\ UNCHANGED <<nonSpVars, spCurrentLevelIdx, spCooldown, spTimers, spStarted>>

\* the stats monitor's tick reaches decideQuality
SpMonitorDecides ==
    /\ spStarted
    /\ ~spCooldown
    /\ ~spIsSwitching
    /\ spCurrentReader # 0
    /\ spReaders[spCurrentReader].state = "running"
    /\ spIsAuto

\* decideQuality: the bad condition has persisted, loadLevel(currentIdx + 1)
SpDowngrade ==
    /\ SpMonitorDecides
    /\ spCurrentLevelIdx < SpLastLevel
    /\ SpLoadLevel(spCurrentLevelIdx + 1)
    /\ UNCHANGED <<nonSpVars, spCurrentLevelIdx, spIsAuto, spCooldown, spTimers, spStarted>>

\* decideQuality: the network has been stable, loadLevel(currentIdx - 1)
SpUpgrade ==
    /\ SpMonitorDecides
    /\ spCurrentLevelIdx > 0
    /\ SpLoadLevel(spCurrentLevelIdx - 1)
    /\ UNCHANGED <<nonSpVars, spCurrentLevelIdx, spIsAuto, spCooldown, spTimers, spStarted>>

\* the stats monitor counts switchCooldownTimer down to 0
SpCooldownEnds ==
    /\ spCooldown
    /\ spCooldown' = FALSE
    /\ UNCHANGED <<nonSpVars, spReaders, spNReaders, spCurrentReader, spCurrentLevelIdx,
                   spIsAuto, spIsSwitching, spTimers, spStarted>>

\* the peer connection of reader r fires ontrack: the onTrack callback of
\* loadLevel makes r the current reader
SpReaderTrack(r) ==
    /\ spReaders[r].state = "running"
    /\ spReaders' = [spReaders EXCEPT ![r].tracked = TRUE]
    /\ spCurrentReader' = r
    /\ spCurrentLevelIdx' = spReaders[r].level
    /\ spIsSwitching' = FALSE
    /\ spCooldown' = TRUE
    /\ UNCHANGED <<nonSpVars, spNReaders, spIsAuto, spTimers, spStarted>>

\* reader.#handleError in state 'running': the reader schedules its own
\* restart and calls onError, which in auto mode schedules loadLevel(index + 1)
SpReaderError(r) ==
    /\ spReaders[r].state = "running"
    /\ spReaders' = [spReaders EXCEPT ![r].state = "restarting"]
    /\ spIsSwitching' = FALSE
    /\ spTimers' = IF spIsAuto /\ spReaders[r].level < SpLastLevel
                   THEN spTimers \cup {spReaders[r].level + 1}
                   ELSE spTimers
    /\ UNCHANGED <<nonSpVars, spNReaders, spCurrentReader, spCurrentLevelIdx, spIsAuto,
                   spCooldown, spStarted>>

\* reader: restartTimeout fires, state = 'running', #start()
SpReaderRestart(r) ==
    /\ spReaders[r].state = "restarting"
    /\ spReaders' = [spReaders EXCEPT ![r].state = "running"]
    /\ UNCHANGED <<nonSpVars, spNReaders, spCurrentReader, spCurrentLevelIdx, spIsAuto,
                   spIsSwitching, spCooldown, spTimers, spStarted>>

\* a setTimeout of onError fires: loadLevel(idx)
SpTimerFires(idx) ==
    /\ idx \in spTimers
    /\ spTimers' = spTimers \ {idx}
    /\ SpLoadLevel(idx)
    /\ UNCHANGED <<nonSpVars, spCurrentLevelIdx, spIsAuto, spCooldown, spStarted>>

NextSp ==
    \/ SpStart
    \/ SpManualAuto
    \/ \E idx \in SpLevels : SpManualSwitch(idx)
    \/ SpDowngrade
    \/ SpUpgrade
    \/ SpCooldownEnds
    \/ \E r \in SpReaderIds : SpReaderTrack(r)
    \/ \E r \in SpReaderIds : SpReaderError(r)
    \/ \E r \in SpReaderIds : SpReaderRestart(r)
    \/ \E idx \in SpLevels : SpTimerFires(idx)

(***************************************************************************)
(* Part IV: the adaptive player with a penalty box,                        *)
(* src/mmxplayer/mixabr/mmxplayer.js.                                      *)
(***************************************************************************)
\* readers one player creates while it is observed
MaxAbrReaders == 3
\* clock steps taken while the player is observed
MaxAbrTicks == 1
\* errors the readers report while the player is observed
MaxAbrErrors == 2

\* ABR_CONFIG.BASE_PENALTY_TIME and MAX_PENALTY_TIME, in ms
BASE_PENALTY_TIME == 60000
MAX_PENALTY_TIME == 300000
\* the clock advances by this much in one step
AbrClockStep == BASE_PENALTY_TIME

\* this.levels, by id; the level indexes start at 0
AbrLevelIds == <<"1080p", "720p", "540p", "audio">>
AbrLevels == 0..(Len(AbrLevelIds) - 1)
AbrLastLevel == Len(AbrLevelIds) - 1
AbrReaderIds == 1..MaxAbrReaders
\* start(): with HEVC the two top levels carry a fallback stream
AbrHasFallback(idx) == abrHasHevc /\ idx \in {0, 1}

NoAbrReader == [state |-> "none", level |-> 0, tracked |-> FALSE]

\* the player's constructor
InitAbr ==
    /\ abrHasHevc \in BOOLEAN
    /\ abrReaders = [r \in AbrReaderIds |-> NoAbrReader]
    /\ abrNReaders = 0
    /\ abrCurrentReader = 0
    /\ abrCurrentLevelIdx = 0
    /\ abrLastGood = -1
    /\ abrIsAuto = TRUE
    /\ abrIsSwitching = FALSE
    /\ abrFallback = FALSE
    /\ abrCooldown = FALSE
    /\ abrPenaltyBox = [l \in AbrLevels |-> 0]
    /\ abrFailureCounts = [l \in AbrLevels |-> 0]
    /\ abrNow = 0
    /\ abrTimers = {}
    /\ abrStarted = FALSE
    /\ abrLastLoad = [level |-> 0, cause |-> "none", auto |-> TRUE, banned |-> FALSE]
    /\ abrBanLen = [l \in AbrLevels |-> 0]
    /\ abrNErrors = 0

\* the player before start(), while another component is observed
InitAbrIdle ==
    /\ abrHasHevc = FALSE
    /\ InitAbr

\* the level's penalty-box deadline lies in the future
AbrBanned(box, idx) == box[idx] # 0 /\ abrNow < box[idx]

\* penalizeLevel: BASE * 2^(count - 1), capped at MAX
PenaltyTime(count) ==
    LET pen == BASE_PENALTY_TIME * 2^(count - 1)
    IN IF pen > MAX_PENALTY_TIME THEN MAX_PENALTY_TIME ELSE pen

\* loadLevel(index) returns at once
AbrLoadBlocked(index, fb) == abrIsSwitching /\ abrCurrentLevelIdx = index /\ ~fb

\* loadLevel(index), called for the given cause with the fallback flag fb, the
\* penalty box and the mode as they are at the call: a new reader is created
AbrLoadLevel(index, cause, fb, box, auto) ==
    IF AbrLoadBlocked(index, fb)
    THEN UNCHANGED <<abrReaders, abrNReaders, abrIsSwitching, abrLastLoad>>
    ELSE /\ abrNReaders < MaxAbrReaders
         /\ abrIsSwitching' = TRUE
         /\ abrNReaders' = abrNReaders + 1
         /\ abrReaders' = [abrReaders EXCEPT ![abrNReaders + 1] =
                             [state |-> "running", level |-> index, tracked |-> FALSE]]
         /\ abrLastLoad' = [level |-> index, cause |-> cause, auto |-> auto,
                            banned |-> AbrBanned(box, index)]

\* start(): currentLevelIdx = 0, loadLevel(0), the stats monitor is started
AbrStart ==
    /\ ~abrStarted
    /\ abrStarted' = TRUE
    /\ abrCurrentLevelIdx' = 0
    /\ AbrLoadLevel(0, "start", abrFallback, abrPenaltyBox, abrIsAuto)
    /\ UNCHANGED <<nonAbrVars, abrHasHevc, abrCurrentReader, abrLastGood, abrIsAuto,
                   abrFallback, abrCooldown, abrPenaltyBox, abrFailureCounts, abrNow,
                   abrTimers, abrBanLen, abrNErrors>>

\* manualSwitch('auto')
AbrManualAuto ==
    /\ abrStarted
    /\ ~abrIsAuto
    /\ abrIsAuto' = TRUE
    /\ UNCHANGED <<nonAbrVars, abrHasHevc, abrReaders, abrNReaders, abrCurrentReader,
                   abrCurrentLevelIdx, abrLastGood, abrIsSwitching, abrFallback,
                   abrCooldown, abrPenaltyBox, abrFailureCounts, abrNow, abrTimers,
                   abrStarted, abrLastLoad, abrBanLen, abrNErrors>>

\* manualSwitch(levelId): the level's failures and ban are cleared first
AbrManualSwitch(idx) ==
    /\ abrStarted
    /\ abrIsAuto' = FALSE
    /\ abrFailureCounts' = [abrFailureCounts EXCEPT ![idx] = 0]
    /\ abrPenaltyBox' = [abrPenaltyBox EXCEPT ![idx] = 0]
    /\ abrFallback' = FALSE
    /\ AbrLoadLevel(idx, "manual", FALSE, [abrPenaltyBox EXCEPT ![idx] = 0], FALSE)
    /\ UNCHANGED <<nonAbrVars, abrHasHevc, abrCurrentReader, abrCurrentLevelIdx,
                   abrLastGood, abrCooldown, abrNow, abrTimers, abrStarted, abrBanLen, abrNErrors>>

\* the stats monitor's tick reaches decideQuality
AbrMonitorDecides ==
    /\ abrStarted
    /\ ~abrCooldown
    /\ ~abrIsSwitching
    /\ abrCurrentReader # 0
    /\ abrReaders[abrCurrentReader].state = "running"
    /\ abrIsAuto

\* decideQuality: a critical or a persistent bad condition, loadLevel(currentIdx + 1)
AbrDowngrade ==
    /\ AbrMonitorDecides
    /\ abrCurrentLevelIdx < AbrLastLevel
    /\ abrFallback' = FALSE
    /\ AbrLoadLevel(abrCurrentLevelIdx + 1, "downgrade", FALSE, abrPenaltyBox, abrIsAuto)
    /\ UNCHANGED <<nonAbrVars, abrHasHevc, abrCurrentReader, abrCurrentLevelIdx,
                   abrLastGood, abrIsAuto, abrCooldown, abrPenaltyBox, abrFailureCounts,
                   abrNow, abrTimers, abrStarted, abrBanLen, abrNErrors>>

\* decideQuality: the level above is not banned (isLevelBanned drops an expired
\* entry) and the network has been stable, loadLevel(currentIdx - 1)
AbrUpgrade ==
    /\ AbrMonitorDecides
    /\ abrCurrentLevelIdx > 0
    /\ ~AbrBanned(abrPenaltyBox, abrCurrentLevelIdx - 1)
    /\ abrPenaltyBox' = [abrPenaltyBox EXCEPT ![abrCurrentLevelIdx - 1] = 0]
    /\ abrFallback' = FALSE
    /\ AbrLoadLevel(abrCurrentLevelIdx - 1, "upgrade", FALSE,
                    [abrPenaltyBox EXCEPT ![abrCurrentLevelIdx - 1] = 0], abrIsAuto)
    /\ UNCHANGED <<nonAbrVars, abrHasHevc, abrCurrentReader, abrCurrentLevelIdx,
                   abrLastGood, abrIsAuto, abrCooldown, abrFailureCounts, abrNow,
                   abrTimers, abrStarted, abrBanLen, abrNErrors>>

\* the stats monitor counts switchCooldownTimer down to 0
AbrCooldownEnds ==
    /\ abrCooldown
    /\ abrCooldown' = FALSE
    /\ UNCHANGED <<nonAbrVars, abrHasHevc, abrReaders, abrNReaders, abrCurrentReader,
                   abrCurrentLevelIdx, abrLastGood, abrIsAuto, abrIsSwitching,
                   abrFallback, abrPenaltyBox, abrFailureCounts, abrNow, abrTimers,
                   abrStarted, abrLastLoad, abrBanLen, abrNErrors>>

\* time passes
AbrClockTick ==
    /\ abrStarted
    /\ abrNow < MaxAbrTicks * AbrClockStep
    /\ abrNow' = abrNow + AbrClockStep
    /\ UNCHANGED <<nonAbrVars, abrHasHevc, abrReaders, abrNReaders, abrCurrentReader,
                   abrCurrentLevelIdx, abrLastGood, abrIsAuto, abrIsSwitching,
                   abrFallback, abrCooldown, abrPenaltyBox, abrFailureCounts, abrTimers,
                   abrStarted, abrLastLoad, abrBanLen, abrNErrors>>

\* the first ontrack of reader r: the onTrack callback of loadLevel closes the
\* current reader and makes r the current one
AbrReaderTrack(r) ==
    /\ abrReaders[r].state = "running"
    /\ ~abrReaders[r].tracked
    /\ abrLastGood' = abrReaders[r].level
    /\ abrReaders' =
         [x \in AbrReaderIds |->
            IF x = r THEN [abrReaders[x] EXCEPT !.tracked = TRUE]
            ELSE IF x = abrCurrentReader THEN [abrReaders[x] EXCEPT !.state = "closed"]
            ELSE abrReaders[x]]
    /\ abrCurrentReader' = r
    /\ abrCurrentLevelIdx' = abrReaders[r].level
    /\ abrIsSwitching' = FALSE
    /\ abrCooldown' = TRUE
    /\ UNCHANGED <<nonAbrVars, abrHasHevc, abrNReaders, abrIsAuto, abrFallback,
                   abrPenaltyBox, abrFailureCounts, abrNow, abrTimers, abrStarted,
                   abrLastLoad, abrBanLen, abrNErrors>>

\* the reader's #handleError in state 'running' (the reader schedules its own
\* restart) and the onError callback of loadLevel for its level
AbrReaderError(r) ==
    /\ abrReaders[r].state = "running"
    /\ abrReaders' = [abrReaders EXCEPT ![r].state = "restarting"]
    /\ abrIsSwitching' = FALSE
    /\ LET index == abrReaders[r].level
           count == abrFailureCounts[index] + 1
       IN IF AbrHasFallback(index) /\ ~abrFallback
          THEN /\ abrFallback' = TRUE
               /\ abrTimers' = abrTimers \cup {[level |-> index, cause |-> "fallback"]}
               /\ UNCHANGED <<abrFailureCounts, abrPenaltyBox, abrBanLen, abrNErrors>>
          ELSE /\ abrFailureCounts' = [abrFailureCounts EXCEPT ![index] = count]
               /\ abrPenaltyBox' = [abrPenaltyBox EXCEPT ![index] = abrNow + PenaltyTime(count)]
               /\ abrBanLen' = [abrBanLen EXCEPT ![index] = PenaltyTime(count)]
               /\ IF abrLastGood # -1 /\ abrLastGood # index
                  THEN /\ abrFallback' = FALSE
                       /\ abrTimers' = abrTimers \cup
                                         {[level |-> abrLastGood, cause |-> "revert"]}
                  ELSE IF abrIsAuto /\ index < AbrLastLevel
                  THEN /\ abrFallback' = FALSE
                       /\ abrTimers' = abrTimers \cup
                                         {[level |-> index + 1, cause |-> "initial"]}
                  ELSE UNCHANGED <<abrFallback, abrTimers>>
    /\ UNCHANGED <<nonAbrVars, abrHasHevc, abrNReaders, abrCurrentReader,
                   abrCurrentLevelIdx, abrLastGood, abrIsAuto, abrCooldown, abrNow,
                   abrStarted, abrLastLoad>>
    /\ abrNErrors < MaxAbrErrors
    /\ abrNErrors' = abrNErrors + 1

\* reader: restartTimeout fires, state = 'running', #start()
AbrReaderRestart(r) ==
    /\ abrReaders[r].state = "restarting"
    /\ abrReaders' = [abrReaders EXCEPT ![r].state = "running"]
    /\ UNCHANGED <<nonAbrVars, abrHasHevc, abrNReaders, abrCurrentReader,
                   abrCurrentLevelIdx, abrLastGood, abrIsAuto, abrIsSwitching,
                   abrFallback, abrCooldown, abrPenaltyBox, abrFailureCounts, abrNow,
                   abrTimers, abrStarted, abrLastLoad, abrBanLen, abrNErrors>>

\* a setTimeout of onError fires: loadLevel(level)
AbrTimerFires(tm) ==
    /\ tm \in abrTimers
    /\ abrTimers' = abrTimers \ {tm}
    /\ AbrLoadLevel(tm.level, tm.cause, abrFallback, abrPenaltyBox, abrIsAuto)
    /\ UNCHANGED <<nonAbrVars, abrHasHevc, abrCurrentReader, abrCurrentLevelIdx,
                   abrLastGood, abrIsAuto, abrFallback, abrCooldown, abrPenaltyBox,
                   abrFailureCounts, abrNow, abrStarted, abrBanLen, abrNErrors>>

AbrTimerChoices ==
    [level : AbrLevels, cause : {"fallback", "revert", "initial"}]

NextAbr ==
    \/ AbrStart
    \/ AbrManualAuto
    \/ \E idx \in AbrLevels : AbrManualSwitch(idx)
    \/ AbrDowngrade
    \/ AbrUpgrade
    \/ AbrCooldownEnds
    \/ AbrClockTick
    \/ \E r \in AbrReaderIds : AbrReaderTrack(r)
    \/ \E r \in AbrReaderIds : AbrReaderError(r)
    \/ \E r \in AbrReaderIds : AbrReaderRestart(r)
    \/ \E tm \in AbrTimerChoices : AbrTimerFires(tm)

(***************************************************************************)
(* Part V: the transcoding outputs (internal/transcoder/manager.go) and    *)
(* the transcoder static source that publishes one of them as a sibling    *)
(* path (internal/staticsources/transcoder/source.go).                     *)
(***************************************************************************)
\* outputs of the transcoding configuration
MaxTcOutputs == 2
\* Manager.Start calls that create outputs
MaxTcStarts == 2
\* Run calls the host makes on the static sources
MaxTcRuns == 3

TcPaths == 1..MaxTcOutputs
\* createStreamDescription always appends the audio media, so the tentative
\* description has a media; a detected one replaces it only with len(medias) > 0
TcDescs == {"none", "tentative", "detected"}
TcHasMedias(d) == d \in {"tentative", "detected"}

\* NewManager, and the static sources allocated by New
InitTc ==
    /\ tcActive = FALSE
    /\ tcGen = 0
    /\ tcOutputs = [o \in TcPaths |-> FALSE]
    /\ tcStreamDesc = [o \in TcPaths |-> "none"]
    /\ tcParse = [o \in TcPaths |-> "none"]
    /\ tcSrcPc = [o \in TcPaths |-> "idle"]
    /\ tcHeld = [o \in TcPaths |-> 0]
    /\ tcPublished = [o \in TcPaths |-> "none"]
    /\ tcRuns = 0

\* Manager.Start with transcoding enabled: NewOutput and Output.Start succeed
\* for the first k outputs of the configuration; a failure returns the error
\* with active left true and the outputs created so far in the map. NewOutput
\* gives the stream the tentative description, Output.Start launches the
\* outputProcessor.
TcManagerStart(k) ==
    /\ ~tcActive
    /\ tcGen < MaxTcStarts
    /\ tcActive' = TRUE
    /\ tcGen' = tcGen + 1
    /\ tcOutputs' = [o \in TcPaths |-> IF o <= k THEN TRUE ELSE tcOutputs[o]]
    /\ tcStreamDesc' = [o \in TcPaths |-> IF o <= k THEN "tentative" ELSE tcStreamDesc[o]]
    /\ tcParse' = [o \in TcPaths |-> IF o <= k THEN "pending" ELSE tcParse[o]]
    /\ UNCHANGED <<nonTcVars, tcSrcPc, tcHeld, tcPublished, tcRuns>>

\* Manager.Stop: every output is stopped (its outputProcessor ends) and the
\* map is replaced by an empty one
TcManagerStop ==
    /\ tcActive
    /\ tcActive' = FALSE
    /\ tcOutputs' = [o \in TcPaths |-> FALSE]
    /\ tcParse' = [o \in TcPaths |-> IF tcParse[o] = "pending" THEN "closed" ELSE tcParse[o]]
    /\ UNCHANGED <<nonTcVars, tcGen, tcStreamDesc, tcSrcPc, tcHeld, tcPublished, tcRuns>>

\* what Initialize and ToStream of the outputProcessor can come to
TcParseResults == {"initfail", "failed", "ok", "empty"}

\* outputProcessor: the reader's Initialize fails and the task returns, or
\* ToStream fails and the initial description is kept, or it yields medias and
\* o.stream.Desc is replaced, or it yields none
TcOutputParse(o, res) ==
    /\ tcOutputs[o]
    /\ tcParse[o] = "pending"
    /\ tcParse' = [tcParse EXCEPT ![o] = res]
    /\ tcStreamDesc' = [tcStreamDesc EXCEPT ![o] = IF res = "ok" THEN "detected" ELSE @]
    /\ UNCHANGED <<nonTcVars, tcActive, tcGen, tcOutputs, tcSrcPc, tcHeld, tcPublished, tcRuns>>

\* the host may call Run on a source that is not running
TcCanRun(o) == tcSrcPc[o] \in {"idle", "failed"} /\ tcRuns < MaxTcRuns

\* Source.Run returns an error before SetReady: AddReader fails, or
\* GetTranscoderOutputStream finds no output for the path
TcRunFails(o, addReaderOK) ==
    /\ TcCanRun(o)
    /\ ~addReaderOK \/ ~tcOutputs[o]
    /\ tcRuns' = tcRuns + 1
    /\ tcSrcPc' = [tcSrcPc EXCEPT ![o] = "failed"]
    /\ UNCHANGED <<nonTcVars, tcActive, tcGen, tcOutputs, tcStreamDesc, tcParse, tcHeld, tcPublished>>

\* Source.Run acquires the output stream, finds a description with medias on
\* it and calls SetReady with the description the stream has at that moment;
\* when SetReady reports an error Run returns it
TcRunSetReady(o, setReadyOK) ==
    /\ TcCanRun(o)
    /\ tcOutputs[o]
    /\ TcHasMedias(tcStreamDesc[o])
    /\ tcRuns' = tcRuns + 1
    /\ tcHeld' = [tcHeld EXCEPT ![o] = tcGen]
    /\ IF setReadyOK
       THEN /\ tcSrcPc' = [tcSrcPc EXCEPT ![o] = "ready"]
            /\ tcPublished' = [tcPublished EXCEPT ![o] = tcStreamDesc[o]]
       ELSE /\ tcSrcPc' = [tcSrcPc EXCEPT ![o] = "failed"]
            /\ UNCHANGED tcPublished
    /\ UNCHANGED <<nonTcVars, tcActive, tcGen, tcOutputs, tcStreamDesc, tcParse>>

\* Stop or the cancellation of Run's context: Run returns and the deferred
\* SetNotReady withdraws the sibling path
TcSourceStop(o) ==
    /\ tcSrcPc[o] = "ready"
    /\ tcSrcPc' = [tcSrcPc EXCEPT ![o] = "idle"]
    /\ tcPublished' = [tcPublished EXCEPT ![o] = "none"]
    /\ UNCHANGED <<nonTcVars, tcActive, tcGen, tcOutputs, tcStreamDesc, tcParse, tcHeld, tcRuns>>

NextTc ==
    \/ \E k \in 0..MaxTcOutputs : TcManagerStart(k)
    \/ TcManagerStop
    \/ \E o \in TcPaths, res \in TcParseResults : TcOutputParse(o, res)
    \/ \E o \in TcPaths, ok \in BOOLEAN : TcRunFails(o, ok)
    \/ \E o \in TcPaths, ok \in BOOLEAN : TcRunSetReady(o, ok)
    \/ \E o \in TcPaths : TcSourceStop(o)

(***************************************************************************)
(* Part IX: the transcoder manager of internal/transcoder/manager.go with  *)
(* its outputs.  Each Output owns an encoder child process and three tasks *)
(* (inputProcessor, outputProcessor, stderrMonitor).  The child is built   *)
(* with exec.CommandContext(o.ctx, ...): once the child has been started,  *)
(* the cancellation of o.ctx has the runtime kill it.                      *)
(***************************************************************************)
\* outputs of the transcoding configuration
MaxToOutputs == 2
\* Manager.Start calls on the transcoder manager
MaxTmStarts == 2
ToOutputs == 1..MaxToOutputs
ToChildLive == {"running", "closing"}
ToTasksDone(o) == toIn[o] \in {"none", "done"} /\ toOut[o] \in {"none", "done"}
                  /\ toErrTask[o] \in {"none", "done"}

\* NewManager: nothing started
InitTo ==
    /\ tmActive = FALSE
    /\ tmOutputs = {}
    /\ tmErr = "none"
    /\ tmStopAt = 0
    /\ tmStarts = 0
    /\ toActive = [o \in ToOutputs |-> FALSE]
    /\ toCtxDone = [o \in ToOutputs |-> FALSE]
    /\ toStdinOpen = [o \in ToOutputs |-> FALSE]
    /\ toChild = [o \in ToOutputs |-> "none"]
    /\ toIn = [o \in ToOutputs |-> "none"]
    /\ toOut = [o \in ToOutputs |-> "none"]
    /\ toErrTask = [o \in ToOutputs |-> "none"]
    /\ toReader = [o \in ToOutputs |-> FALSE]
    /\ toCbs = [o \in ToOutputs |-> FALSE]
    /\ toStopPc = [o \in ToOutputs |-> "idle"]

\* Manager.Start with transcoding enabled: "m.active = true", then for each
\* output of the configuration NewOutput and Output.Start.  The first k
\* outputs start (child spawned, "o.active = true", the three tasks launched)
\* and are put in the map; when k is less than the number of outputs, output
\* k + 1 fails (NewOutput, a pipe or process.Start) and Start returns the error
TmStart(k) ==
    /\ ~tmActive
    /\ tmStopAt = 0
    /\ tmStarts < MaxTmStarts
    /\ tmStarts' = tmStarts + 1
    /\ tmActive' = TRUE
    /\ tmOutputs' = tmOutputs \cup (1..k)
    /\ tmErr' = IF k < MaxToOutputs THEN "error" ELSE "ok"
    /\ toActive' = [o \in ToOutputs |-> o <= k]
    /\ toCtxDone' = [o \in ToOutputs |-> FALSE]
    /\ toStdinOpen' = [o \in ToOutputs |-> o <= k]
    /\ toChild' = [o \in ToOutputs |-> IF o <= k THEN "running" ELSE "none"]
    /\ toIn' = [o \in ToOutputs |-> IF o <= k THEN "start" ELSE "none"]
    /\ toOut' = [o \in ToOutputs |-> IF o <= k THEN "parse" ELSE "none"]
    /\ toErrTask' = [o \in ToOutputs |-> IF o <= k THEN "running" ELSE "none"]
    /\ toReader' = [o \in ToOutputs |-> FALSE]
    /\ toCbs' = [o \in ToOutputs |-> FALSE]
    /\ toStopPc' = [o \in ToOutputs |-> "idle"]
    /\ UNCHANGED <<nonToVars, tmStopAt>>

\* inputProcessor: "o.reader = &stream.Reader{}; inputStream.AddReader(o.reader)"
ToInputAttach(o) ==
    /\ toIn[o] = "start"
    /\ toIn' = [toIn EXCEPT ![o] = "attached"]
    /\ toReader' = [toReader EXCEPT ![o] = TRUE]
    /\ UNCHANGED <<nonToVars, tmActive, tmOutputs, tmErr, tmStopAt, tmStarts, toActive, toCtxDone,
                   toStdinOpen, toChild, toOut, toErrTask, toCbs, toStopPc>>

\* inputProcessor: mpegts.FromStream registers the callbacks on o.reader (or
\* fails) and returns; the function ends, so the deferred bw.Flush() and
\* inputStream.RemoveReader(o.reader) run
ToInputFromStream(o, ok) ==
    /\ toIn[o] = "attached"
    /\ toCbs' = [toCbs EXCEPT ![o] = ok]
    /\ toReader' = [toReader EXCEPT ![o] = FALSE]
    /\ toIn' = [toIn EXCEPT ![o] = "done"]
    /\ UNCHANGED <<nonToVars, tmActive, tmOutputs, tmErr, tmStopAt, tmStarts, toActive, toCtxDone,
                   toStdinOpen, toChild, toOut, toErrTask, toStopPc>>

\* outputProcessor: Initialize and ToStream read the child's stdout; the task
\* goes on to its read loop, or returns on an error of Initialize (EOF when
\* the child has gone)
ToOutputParse(o, ok) ==
    /\ toOut[o] = "parse"
    /\ ok => toChild[o] = "running"
    /\ toOut' = [toOut EXCEPT ![o] = IF ok THEN "read" ELSE "done"]
    /\ UNCHANGED <<nonToVars, tmActive, tmOutputs, tmErr, tmStopAt, tmStarts, toActive, toCtxDone,
                   toStdinOpen, toChild, toIn, toErrTask, toReader, toCbs, toStopPc>>

\* outputProcessor: the final select returns on o.ctx.Done() or a read error
ToOutputEnd(o) ==
    /\ toOut[o] = "read"
    /\ toCtxDone[o] \/ toChild[o] # "running"
    /\ toOut' = [toOut EXCEPT ![o] = "done"]
    /\ UNCHANGED <<nonToVars, tmActive, tmOutputs, tmErr, tmStopAt, tmStarts, toActive, toCtxDone,
                   toStdinOpen, toChild, toIn, toErrTask, toReader, toCbs, toStopPc>>

\* stderrMonitor: scanner.Scan() ends when the child's stderr is closed
ToStderrEnd(o) ==
    /\ toErrTask[o] = "running"
    /\ toChild[o] # "running"
    /\ toErrTask' = [toErrTask EXCEPT ![o] = "done"]
    /\ UNCHANGED <<nonToVars, tmActive, tmOutputs, tmErr, tmStopAt, tmStarts, toActive, toCtxDone,
                   toStdinOpen, toChild, toIn, toOut, toReader, toCbs, toStopPc>>

\* the encoder ends its work (end of input on stdin, or a failure of its own)
\* and closes its pipes
ToChildCloses(o) ==
    /\ toChild[o] = "running"
    /\ toChild' = [toChild EXCEPT ![o] = "closing"]
    /\ UNCHANGED <<nonToVars, tmActive, tmOutputs, tmErr, tmStopAt, tmStarts, toActive, toCtxDone,
                   toStdinOpen, toIn, toOut, toErrTask, toReader, toCbs, toStopPc>>

\* the encoder process exits
ToChildExits(o) ==
    /\ toChild[o] = "closing"
    /\ toChild' = [toChild EXCEPT ![o] = "exited"]
    /\ UNCHANGED <<nonToVars, tmActive, tmOutputs, tmErr, tmStopAt, tmStarts, toActive, toCtxDone,
                   toStdinOpen, toIn, toOut, toErrTask, toReader, toCbs, toStopPc>>

\* exec.CommandContext(o.ctx, ...): o.ctx is done before the command has
\* completed, the runtime calls Process.Kill
ToCtxKill(o) ==
    /\ toCtxDone[o]
    /\ toChild[o] \in ToChildLive
    /\ toChild' = [toChild EXCEPT ![o] = "killed"]
    /\ UNCHANGED <<nonToVars, tmActive, tmOutputs, tmErr, tmStopAt, tmStarts, toActive, toCtxDone,
                   toStdinOpen, toIn, toOut, toErrTask, toReader, toCbs, toStopPc>>

\* the outputs of the map Manager.Stop has not stopped yet
TmToStop == {o \in tmOutputs : toStopPc[o] # "returned"}

\* Manager.Stop: "m.active = false; m.ctxCancel()", then the loop over the map
TmStopBegin ==
    /\ tmActive
    /\ tmStopAt = 0
    /\ tmActive' = FALSE
    /\ tmErr' = "none"
    /\ IF tmOutputs = {}
       THEN UNCHANGED <<tmStopAt, tmOutputs>>
       ELSE /\ tmStopAt' \in tmOutputs
            /\ UNCHANGED tmOutputs
    /\ UNCHANGED <<nonToVars, tmStarts, toActive, toCtxDone, toStdinOpen, toChild, toIn, toOut,
                   toErrTask, toReader, toCbs, toStopPc>>

\* Manager.Stop: output.Stop() has returned; the loop goes to the next output
\* or ends, and "m.outputs = make(map[string]*Output)"
TmStopNext ==
    /\ tmStopAt # 0
    /\ toStopPc[tmStopAt] = "returned"
    /\ IF TmToStop = {}
       THEN tmStopAt' = 0 /\ tmOutputs' = {}
       ELSE tmStopAt' \in TmToStop /\ UNCHANGED tmOutputs
    /\ UNCHANGED <<nonToVars, tmActive, tmErr, tmStarts, toActive, toCtxDone, toStdinOpen, toChild,
                   toIn, toOut, toErrTask, toReader, toCbs, toStopPc>>

\* Output.Stop: "if !o.active { return }; o.active = false; o.ctxCancel()"
ToStopCancel(o) ==
    /\ tmStopAt = o
    /\ toStopPc[o] = "idle"
    /\ IF toActive[o]
       THEN /\ toActive' = [toActive EXCEPT ![o] = FALSE]
            /\ toCtxDone' = [toCtxDone EXCEPT ![o] = TRUE]
            /\ toStopPc' = [toStopPc EXCEPT ![o] = "cancelled"]
       ELSE /\ toStopPc' = [toStopPc EXCEPT ![o] = "returned"]
            /\ UNCHANGED <<toActive, toCtxDone>>
    /\ UNCHANGED <<nonToVars, tmActive, tmOutputs, tmErr, tmStopAt, tmStarts, toStdinOpen, toChild,
                   toIn, toOut, toErrTask, toReader, toCbs>>

\* Output.Stop: "o.stdin.Close()", then o.wg.Wait() begins
ToStopCloseStdin(o) ==
    /\ tmStopAt = o
    /\ toStopPc[o] = "cancelled"
    /\ toStdinOpen' = [toStdinOpen EXCEPT ![o] = FALSE]
    /\ toStopPc' = [toStopPc EXCEPT ![o] = "waitwg"]
    /\ UNCHANGED <<nonToVars, tmActive, tmOutputs, tmErr, tmStopAt, tmStarts, toActive, toCtxDone,
                   toChild, toIn, toOut, toErrTask, toReader, toCbs>>

\* Output.Stop: o.wg.Wait() returns when the three tasks have ended
ToStopWaited(o) ==
    /\ tmStopAt = o
    /\ toStopPc[o] = "waitwg"
    /\ ToTasksDone(o)
    /\ toStopPc' = [toStopPc EXCEPT ![o] = "waitproc"]
    /\ UNCHANGED <<nonToVars, tmActive, tmOutputs, tmErr, tmStopAt, tmStarts, toActive, toCtxDone,
                   toStdinOpen, toChild, toIn, toOut, toErrTask, toReader, toCbs>>

\* Output.Stop: o.process.Wait() returns within the 2 seconds
ToStopReaped(o) ==
    /\ tmStopAt = o
    /\ toStopPc[o] = "waitproc"
    /\ toChild[o] \notin ToChildLive
    /\ toStopPc' = [toStopPc EXCEPT ![o] = "returned"]
    /\ UNCHANGED <<nonToVars, tmActive, tmOutputs, tmErr, tmStopAt, tmStarts, toActive, toCtxDone,
                   toStdinOpen, toChild, toIn, toOut, toErrTask, toReader, toCbs>>

\* Output.Stop: time.After(2 * time.Second) fires first: Process.Kill and Wait
ToStopTimeoutKill(o) ==
    /\ tmStopAt = o
    /\ toStopPc[o] = "waitproc"
    /\ toChild[o] \in ToChildLive
    /\ toChild' = [toChild EXCEPT ![o] = "killed"]
    /\ toStopPc' = [toStopPc EXCEPT ![o] = "returned"]
    /\ UNCHANGED <<nonToVars, tmActive, tmOutputs, tmErr, tmStopAt, tmStarts, toActive, toCtxDone,
                   toStdinOpen, toIn, toOut, toErrTask, toReader, toCbs>>

ToTaskStep ==
    \E o \in ToOutputs :
       \/ ToInputAttach(o)
       \/ \E ok \in BOOLEAN : ToInputFromStream(o, ok)
       \/ \E ok \in BOOLEAN : ToOutputParse(o, ok)
       \/ ToOutputEnd(o)
       \/ ToStderrEnd(o)

ToChildStep ==
    \E o \in ToOutputs : ToChildCloses(o) \/ ToChildExits(o) \/ ToCtxKill(o)

ToStopStep ==
    \E o \in ToOutputs :
       \/ ToStopCancel(o)
       \/ ToStopCloseStdin(o)
       \/ ToStopWaited(o)
       \/ ToStopReaped(o)
       \/ ToStopTimeoutKill(o)

NextTo ==
    \/ \E k \in 0..MaxToOutputs : TmStart(k)
    \/ TmStopBegin
    \/ TmStopNext
    \/ ToTaskStep
    \/ ToChildStep
    \/ ToStopStep

(***************************************************************************)
(* Part X: Run and Stop of the transcoder static source                    *)
(* (internal/staticsources/transcoder/source.go) with the channels         *)
(* s.terminate and s.done, both made once in New.                          *)
(***************************************************************************)
\* Run calls of the host on one source
MaxSsRuns == 3
SsDescs == {"nil", "empty", "medias"}

\* New: both channels open, nothing registered
InitSs ==
    /\ ssRun = "idle"
    /\ ssRunErr = ""
    /\ ssRuns = 0
    /\ ssCtxDone = FALSE
    /\ ssTerminate = FALSE
    /\ ssDone = FALSE
    /\ ssStop = "idle"
    /\ ssDesc \in SsDescs
    /\ ssRegReader = FALSE
    /\ ssReady = FALSE
    /\ ssPanicked = FALSE

InitSsIdle == InitSs /\ ssDesc = "medias"

\* the host calls Run with a context of its own
SsRun ==
    /\ ~ssPanicked
    /\ ssRun \in {"idle", "returned"}
    /\ ssRuns < MaxSsRuns
    /\ ssRuns' = ssRuns + 1
    /\ ssRun' = "addreader"
    /\ ssRunErr' = ""
    /\ ssCtxDone' = FALSE
    /\ UNCHANGED <<nonSsVars, ssTerminate, ssDone, ssStop, ssDesc, ssRegReader, ssReady, ssPanicked>>

\* Run: PathManager.AddReader; an error or a nil path returns at once, before
\* the removal is deferred
SsAddReader(res) ==
    /\ ~ssPanicked
    /\ ssRun = "addreader"
    /\ IF res = "ok"
       THEN ssRun' = "getstream" /\ ssRegReader' = TRUE /\ UNCHANGED ssRunErr
       ELSE ssRun' = "returned" /\ ssRunErr' = res /\ UNCHANGED ssRegReader
    /\ UNCHANGED <<nonSsVars, ssRuns, ssCtxDone, ssTerminate, ssDone, ssStop, ssDesc, ssReady,
                   ssPanicked>>

\* Run: GetTranscoderOutputStream; without an output stream Run returns the
\* error (the deferred RemoveReader runs); with one it goes to SetReady when
\* the description has medias and waits otherwise
SsGetStream(found) ==
    /\ ~ssPanicked
    /\ ssRun = "getstream"
    /\ IF ~found
       THEN ssRun' = "returned" /\ ssRunErr' = "nostream" /\ ssRegReader' = FALSE
       ELSE /\ ssRun' = IF ssDesc = "medias" THEN "setready" ELSE "waitdesc"
            /\ UNCHANGED <<ssRunErr, ssRegReader>>
    /\ UNCHANGED <<nonSsVars, ssRuns, ssCtxDone, ssTerminate, ssDone, ssStop, ssDesc, ssReady,
                   ssPanicked>>

\* Run, the wait for the description: the context is cancelled (error), the
\* description has got medias, or the 5 seconds are over: an error when Desc
\* is nil, SetReady with the empty description otherwise
SsWaitDesc(timeout) ==
    /\ ~ssPanicked
    /\ ssRun = "waitdesc"
    /\ IF ssDesc = "medias"
       THEN ssRun' = "setready" /\ UNCHANGED <<ssRunErr, ssRegReader>>
       ELSE IF ssCtxDone
       THEN ssRun' = "returned" /\ ssRunErr' = "cancelled" /\ ssRegReader' = FALSE
       ELSE /\ timeout
            /\ IF ssDesc = "nil"
               THEN ssRun' = "returned" /\ ssRunErr' = "nodesc" /\ ssRegReader' = FALSE
               ELSE ssRun' = "setready" /\ UNCHANGED <<ssRunErr, ssRegReader>>
    /\ UNCHANGED <<nonSsVars, ssRuns, ssCtxDone, ssTerminate, ssDone, ssStop, ssDesc, ssReady,
                   ssPanicked>>

\* Run: Parent.SetReady; on its error Run returns it
SsSetReady(ok) ==
    /\ ~ssPanicked
    /\ ssRun = "setready"
    /\ IF ok
       THEN ssRun' = "select" /\ ssReady' = TRUE /\ UNCHANGED <<ssRunErr, ssRegReader>>
       ELSE ssRun' = "returned" /\ ssRunErr' = "setready" /\ ssRegReader' = FALSE
            /\ UNCHANGED ssReady
    /\ UNCHANGED <<nonSsVars, ssRuns, ssCtxDone, ssTerminate, ssDone, ssStop, ssDesc, ssPanicked>>

\* Run: the final select returns on s.terminate or params.Context.Done();
\* "close(s.done); return nil", then the deferred calls
SsSelect ==
    /\ ~ssPanicked
    /\ ssRun = "select"
    /\ ssTerminate \/ ssCtxDone
    /\ IF ssDone
       THEN ssPanicked' = TRUE /\ UNCHANGED <<ssRun, ssDone, ssReady, ssRegReader>>
       ELSE /\ ssDone' = TRUE
            /\ ssRun' = "returned"
            /\ ssReady' = FALSE
            /\ ssRegReader' = FALSE
            /\ UNCHANGED ssPanicked
    /\ UNCHANGED <<nonSsVars, ssRunErr, ssRuns, ssCtxDone, ssTerminate, ssStop, ssDesc>>

\* the host cancels the context it gave to Run
SsCancel ==
    /\ ~ssPanicked
    /\ ssRun \notin {"idle", "returned"}
    /\ ~ssCtxDone
    /\ ssCtxDone' = TRUE
    /\ UNCHANGED <<nonSsVars, ssRun, ssRunErr, ssRuns, ssTerminate, ssDone, ssStop, ssDesc,
                   ssRegReader, ssReady, ssPanicked>>

\* the outputProcessor of the transcoding output replaces the description
SsDescSet ==
    /\ ~ssPanicked
    /\ ssDesc # "medias"
    /\ ssDesc' = "medias"
    /\ UNCHANGED <<nonSsVars, ssRun, ssRunErr, ssRuns, ssCtxDone, ssTerminate, ssDone, ssStop,
                   ssRegReader, ssReady, ssPanicked>>

\* Stop, called on a source the host has run: "close(s.terminate)", then the
\* wait on s.done begins
SsStopBegin ==
    /\ ~ssPanicked
    /\ ssRuns > 0
    /\ ssStop \in {"idle", "returned"}
    /\ IF ssTerminate
       THEN ssPanicked' = TRUE /\ UNCHANGED <<ssTerminate, ssStop>>
       ELSE ssTerminate' = TRUE /\ ssStop' = "waiting" /\ UNCHANGED ssPanicked
    /\ UNCHANGED <<nonSsVars, ssRun, ssRunErr, ssRuns, ssCtxDone, ssDone, ssDesc, ssRegReader,
                   ssReady>>

\* Stop: "<-s.done" returns
SsStopReturn ==
    /\ ~ssPanicked
    /\ ssStop = "waiting"
    /\ ssDone
    /\ ssStop' = "returned"
    /\ UNCHANGED <<nonSsVars, ssRun, ssRunErr, ssRuns, ssCtxDone, ssTerminate, ssDone, ssDesc,
                   ssRegReader, ssReady, ssPanicked>>

SsAddReaderResults == {"ok", "addreader", "nilpath"}

\* the steps of a Run in progress
SsRunStep ==
    \/ \E res \in SsAddReaderResults : SsAddReader(res)
    \/ \E found \in BOOLEAN : SsGetStream(found)
    \/ \E timeout \in BOOLEAN : SsWaitDesc(timeout)
    \/ \E ok \in BOOLEAN : SsSetReady(ok)
    \/ SsSelect

NextSs ==
    \/ SsRun
    \/ SsRunStep
    \/ SsCancel
    \/ SsDescSet
    \/ SsStopBegin
    \/ SsStopReturn

(***************************************************************************)
(* Part XI: startStatsMonitor, decideQuality, manualSwitch and loadLevel   *)
(* of the simulcast player (src/mmxplayer/mmxplayer.js), one step per tick *)
(* of the 1 Hz interval.  A tick that measures (processStats) sees one of  *)
(* three network conditions on the smoothed metrics: a downgrade trigger   *)
(* holds, the network is healthy, or neither.                              *)
(***************************************************************************)
DOWNGRADE_PERSISTENCE == 4
STABLE_DURATION == 8
SWITCH_COOLDOWN == 5
DqConds == {"trigger", "healthy", "neither"}
\* the level ids given to manualSwitch; "other" is an id that is no level
DqSwitchIds == {"auto", "other"} \cup {SpLevelIds[k + 1] : k \in SpLevels}
\* this.levels.findIndex(l => l.id === levelId)
DqFindIndex(id) ==
    IF \E k \in SpLevels : SpLevelIds[k + 1] = id
    THEN CHOOSE k \in SpLevels : SpLevelIds[k + 1] = id
    ELSE -1

\* the constructor
InitDq ==
    /\ dqStarted = FALSE
    /\ dqIsAuto = TRUE
    /\ dqIdx = 0
    /\ dqBad = 0
    /\ dqStable = 0
    /\ dqCooldown = 0
    /\ dqSwitching = FALSE
    /\ dqHasReader = FALSE
    /\ dqPending = -1
    /\ dqTimers = {}
    /\ dqCause = "none"
    /\ dqTrigRun = 0
    /\ dqGoodRun = 0

\* loadLevel(index) is left at once when a switch to the current level is in
\* progress
DqLoadBlocked(index) == dqSwitching /\ dqIdx = index

\* loadLevel(index): isSwitching = true, the current reader is closed and
\* forgotten, a new reader is created
DqLoadLevel(index, cause) ==
    IF DqLoadBlocked(index)
    THEN UNCHANGED <<dqSwitching, dqHasReader, dqPending, dqCause>>
    ELSE /\ dqSwitching' = TRUE
         /\ dqHasReader' = FALSE
         /\ dqPending' = index
         /\ dqCause' = cause

\* start(): currentLevelIdx = 0, loadLevel(0), startStatsMonitor()
DqStart ==
    /\ ~dqStarted
    /\ dqStarted' = TRUE
    /\ dqIdx' = 0
    /\ DqLoadLevel(0, "start")
    /\ UNCHANGED <<nonDqVars, dqIsAuto, dqBad, dqStable, dqCooldown, dqTimers, dqTrigRun, dqGoodRun>>

\* manualSwitch(levelId)
DqManualSwitch(id) ==
    /\ dqStarted
    /\ IF id = "auto"
       THEN /\ dqIsAuto' = TRUE
            /\ UNCHANGED <<dqSwitching, dqHasReader, dqPending, dqCause>>
       ELSE /\ dqIsAuto' = FALSE
            /\ IF DqFindIndex(id) # -1
               THEN DqLoadLevel(DqFindIndex(id), "manual")
               ELSE UNCHANGED <<dqSwitching, dqHasReader, dqPending, dqCause>>
    /\ UNCHANGED <<nonDqVars, dqStarted, dqIdx, dqBad, dqStable, dqCooldown, dqTimers, dqTrigRun,
                   dqGoodRun>>

DqInc(n, max) == IF n < max THEN n + 1 ELSE max

\* decideQuality on condition c with the counters bad and stable; the result
\* is the new counters and the level to load (-1: none)
DecideQuality(c, idx, bad, stable) ==
    LET bad1 == IF idx < SpLastLevel
                THEN (IF c = "trigger" THEN bad + 1 ELSE 0)
                ELSE bad
    IN IF idx < SpLastLevel /\ c = "trigger" /\ bad1 >= DOWNGRADE_PERSISTENCE
       THEN [bad |-> bad1, stable |-> stable, load |-> idx + 1, cause |-> "down"]
       ELSE IF idx > 0
       THEN IF c = "healthy"
            THEN IF stable + 1 >= STABLE_DURATION
                 THEN [bad |-> bad1, stable |-> 0, load |-> idx - 1, cause |-> "up"]
                 ELSE [bad |-> bad1, stable |-> stable + 1, load |-> -1, cause |-> ""]
            ELSE [bad |-> bad1, stable |-> 0, load |-> -1, cause |-> ""]
       ELSE [bad |-> bad1, stable |-> stable, load |-> -1, cause |-> ""]

\* one firing of the interval of startStatsMonitor: the cooldown is counted
\* down; without a switch in progress and with a connected reader whose stats
\* hold a succeeded candidate pair (pair), processStats runs on condition c
\* and, in auto mode with the cooldown at 0, decideQuality
DqTick(c, pair) ==
    /\ dqStarted
    /\ dqCooldown' = IF dqCooldown > 0 THEN dqCooldown - 1 ELSE 0
    /\ IF dqSwitching \/ ~dqHasReader \/ ~pair
       THEN UNCHANGED <<dqBad, dqStable, dqSwitching, dqHasReader, dqPending, dqCause,
                        dqTrigRun, dqGoodRun>>
       ELSE /\ dqTrigRun' = IF c = "trigger" THEN DqInc(dqTrigRun, DOWNGRADE_PERSISTENCE) ELSE 0
            /\ dqGoodRun' = IF c = "healthy" THEN DqInc(dqGoodRun, STABLE_DURATION) ELSE 0
            /\ IF dqIsAuto /\ dqCooldown' = 0
               THEN LET d == DecideQuality(c, dqIdx, dqBad, dqStable)
                    IN /\ dqBad' = d.bad
                       /\ dqStable' = d.stable
                       /\ IF d.load # -1
                          THEN DqLoadLevel(d.load, d.cause)
                          ELSE UNCHANGED <<dqSwitching, dqHasReader, dqPending, dqCause>>
               ELSE UNCHANGED <<dqBad, dqStable, dqSwitching, dqHasReader, dqPending, dqCause>>
    /\ UNCHANGED <<nonDqVars, dqStarted, dqIsAuto, dqIdx, dqTimers>>

\* the onTrack callback of the reader created last: it becomes the current
\* reader, the metrics and both counters are reset, the cooldown starts
DqOnTrack ==
    /\ dqPending # -1
    /\ dqHasReader' = TRUE
    /\ dqIdx' = dqPending
    /\ dqPending' = -1
    /\ dqStable' = 0
    /\ dqBad' = 0
    /\ dqSwitching' = FALSE
    /\ dqCooldown' = SWITCH_COOLDOWN
    /\ dqTrigRun' = 0
    /\ dqGoodRun' = 0
    /\ UNCHANGED <<nonDqVars, dqStarted, dqIsAuto, dqTimers, dqCause>>

\* the onError callback of the reader of level lvl (the one still connecting,
\* or the current one, which loses its peer connection and will reconnect):
\* isSwitching = false and, in auto mode, setTimeout(loadLevel(lvl + 1))
DqOnError ==
    /\ dqPending # -1 \/ dqHasReader
    /\ LET lvl == IF dqPending # -1 THEN dqPending ELSE dqIdx
       IN /\ dqPending' = lvl
          /\ dqTimers' = IF dqIsAuto /\ lvl < SpLastLevel THEN dqTimers \cup {lvl + 1}
                         ELSE dqTimers
    /\ dqHasReader' = FALSE
    /\ dqSwitching' = FALSE
    /\ UNCHANGED <<nonDqVars, dqStarted, dqIsAuto, dqIdx, dqBad, dqStable, dqCooldown, dqCause,
                   dqTrigRun, dqGoodRun>>

\* a setTimeout of onError fires: loadLevel(t)
DqTimerFires(t) ==
    /\ t \in dqTimers
    /\ dqTimers' = dqTimers \ {t}
    /\ DqLoadLevel(t, "timer")
    /\ UNCHANGED <<nonDqVars, dqStarted, dqIsAuto, dqIdx, dqBad, dqStable, dqCooldown, dqTrigRun,
                   dqGoodRun>>

NextDq ==
    \/ DqStart
    \/ \E id \in DqSwitchIds : DqManualSwitch(id)
    \/ \E c \in DqConds, pair \in BOOLEAN : DqTick(c, pair)
    \/ DqOnTrack
    \/ DqOnError
    \/ \E t \in SpLevels : DqTimerFires(t)

(***************************************************************************)
(* Part XII: the WHEP reader of the players, MediaMTXWebRTCReader, in its   *)
(* two files src/mmxplayer/pk/reader.js and src/mmxplayer/whep/reader.js.   *)
(* The constructor sets state 'running' and calls #start, whose promise     *)
(* chain is OPTIONS, peer connection and offer, POST, answer text,          *)
(* setRemoteDescription.  A restart timeout fires once the chain of the     *)
(* attempt before it has settled.                                           *)
(***************************************************************************)
\* #start calls of one reader
MaxRdStarts == 2
\* local ICE candidates the peer connections of one reader produce
MaxRdCands == 3

RdVariants == {"pk", "whep"}
RdPatchIds == 1..MaxRdCands

\* the state after new MediaMTXWebRTCReader(conf)
InitRd ==
    /\ rdVariant \in RdVariants
    /\ rdState = "running"
    /\ rdPcOpen = FALSE
    /\ rdTimer = FALSE
    /\ rdSessionUrl = FALSE
    /\ rdQueue = <<>>
    /\ rdChain = "options"
    /\ rdStarts = 1
    /\ rdCandOf = <<>>
    /\ rdPatches = <<>>
    /\ rdDeletes = 0

InitRdIdle == InitRd /\ rdVariant = "pk"

\* #handleError(err): only state 'running' restarts ('getting_codecs' is left
\* inside the constructor)
RdHandleError ==
    IF rdState = "running"
    THEN /\ rdPcOpen' = FALSE
         /\ rdDeletes' = IF rdVariant = "whep" /\ rdSessionUrl THEN rdDeletes + 1 ELSE rdDeletes
         /\ rdSessionUrl' = FALSE
         /\ rdQueue' = <<>>
         /\ rdState' = "restarting"
         /\ rdTimer' = TRUE
    ELSE UNCHANGED <<rdState, rdPcOpen, rdTimer, rdSessionUrl, rdQueue, rdDeletes>>

\* #sendLocalCandidates(candidates): one PATCH to the session URL
RdSendLocalCandidates(candidates) ==
    Append(rdPatches, [cands |-> {candidates[i] : i \in 1..Len(candidates)}, res |-> "inflight"])

\* close()
RdClose ==
    /\ rdState' = "closed"
    /\ rdPcOpen' = FALSE
    /\ rdTimer' = FALSE
    /\ IF rdVariant = "pk"
       THEN rdSessionUrl' = FALSE /\ rdQueue' = <<>>
       ELSE UNCHANGED <<rdSessionUrl, rdQueue>>
    /\ UNCHANGED <<nonRdVars, rdVariant, rdChain, rdStarts, rdCandOf, rdPatches, rdDeletes>>

\* the OPTIONS request settles; on success #setupPeerConnection creates the
\* peer connection and the offer
RdIceServers(ok) ==
    /\ rdChain = "options"
    /\ IF ok /\ rdState = "running"
       THEN /\ rdPcOpen' = TRUE
            /\ rdChain' = "offer"
            /\ UNCHANGED <<rdState, rdTimer, rdSessionUrl, rdQueue, rdDeletes>>
       ELSE /\ rdChain' = "idle"
            /\ RdHandleError
    /\ UNCHANGED <<nonRdVars, rdVariant, rdStarts, rdCandOf, rdPatches>>

\* setLocalDescription settles; on success #sendOffer sends the POST
RdSendOffer(ok) ==
    /\ rdChain = "offer"
    /\ IF ok /\ rdState = "running"
       THEN /\ rdChain' = "post"
            /\ UNCHANGED <<rdState, rdPcOpen, rdTimer, rdSessionUrl, rdQueue, rdDeletes>>
       ELSE /\ rdChain' = "idle"
            /\ RdHandleError
    /\ UNCHANGED <<nonRdVars, rdVariant, rdStarts, rdCandOf, rdPatches>>

\* the response of the POST: 201 sets the session URL (pk/reader.js also sends
\* the queued candidates); any other outcome is an error
RdOfferResponse(created) ==
    /\ rdChain = "post"
    /\ IF created
       THEN /\ rdChain' = "text"
            /\ rdSessionUrl' = TRUE
            /\ IF rdVariant = "pk" /\ Len(rdQueue) > 0
               THEN /\ rdPatches' = RdSendLocalCandidates(rdQueue)
                    /\ rdQueue' = <<>>
               ELSE UNCHANGED <<rdPatches, rdQueue>>
            /\ UNCHANGED <<rdState, rdPcOpen, rdTimer, rdDeletes>>
       ELSE /\ rdChain' = "idle"
            /\ RdHandleError
            /\ UNCHANGED rdPatches
    /\ UNCHANGED <<nonRdVars, rdVariant, rdStarts, rdCandOf>>

\* res.text() settles; on success #setAnswer calls setRemoteDescription
RdSetAnswer(ok) ==
    /\ rdChain = "text"
    /\ IF ok /\ rdState = "running"
       THEN /\ rdChain' = "answer"
            /\ UNCHANGED <<rdState, rdPcOpen, rdTimer, rdSessionUrl, rdQueue, rdDeletes>>
       ELSE /\ rdChain' = "idle"
            /\ RdHandleError
    /\ UNCHANGED <<nonRdVars, rdVariant, rdStarts, rdCandOf, rdPatches>>

\* setRemoteDescription settles: the end of the chain
RdAnswerSet(ok) ==
    /\ rdChain = "answer"
    /\ rdChain' = "idle"
    /\ IF ok
       THEN UNCHANGED <<rdState, rdPcOpen, rdTimer, rdSessionUrl, rdQueue, rdDeletes>>
       ELSE RdHandleError
    /\ UNCHANGED <<nonRdVars, rdVariant, rdStarts, rdCandOf, rdPatches>>

\* #onLocalCandidate(evt) with a candidate of the open peer connection, after
\* setLocalDescription
RdOnLocalCandidate ==
    /\ rdPcOpen
    /\ rdChain \in {"post", "text", "answer", "idle"}
    /\ rdState = "running"
    /\ Len(rdCandOf) < MaxRdCands
    /\ rdCandOf' = Append(rdCandOf, rdStarts)
    /\ IF ~rdSessionUrl
       THEN /\ rdQueue' = Append(rdQueue, Len(rdCandOf) + 1)
            /\ UNCHANGED rdPatches
       ELSE /\ rdPatches' = RdSendLocalCandidates(<<Len(rdCandOf) + 1>>)
            /\ UNCHANGED rdQueue
    /\ UNCHANGED <<nonRdVars, rdVariant, rdState, rdPcOpen, rdTimer, rdSessionUrl, rdChain,
                   rdStarts, rdDeletes>>

\* a PATCH settles; its catch only warns in pk/reader.js and calls #handleError
\* in whep/reader.js
RdPatchResult(i, ok) ==
    /\ i <= Len(rdPatches)
    /\ rdPatches[i].res = "inflight"
    /\ rdPatches' = [rdPatches EXCEPT ![i].res = IF ok THEN "ok" ELSE "failed"]
    /\ IF ~ok /\ rdVariant = "whep"
       THEN RdHandleError
       ELSE UNCHANGED <<rdState, rdPcOpen, rdTimer, rdSessionUrl, rdQueue, rdDeletes>>
    /\ UNCHANGED <<nonRdVars, rdVariant, rdChain, rdStarts, rdCandOf>>

\* #onConnectionState with connectionState 'failed' or 'closed'
RdOnConnectionState ==
    /\ rdPcOpen
    /\ rdState = "running"
    /\ RdHandleError
    /\ UNCHANGED <<nonRdVars, rdVariant, rdChain, rdStarts, rdCandOf, rdPatches>>

\* the restart timeout fires: state = 'running', #start()
RdRestartTimeout ==
    /\ rdTimer
    /\ rdChain = "idle"
    /\ rdStarts < MaxRdStarts
    /\ rdTimer' = FALSE
    /\ rdState' = "running"
    /\ rdChain' = "options"
    /\ rdStarts' = rdStarts + 1
    /\ UNCHANGED <<nonRdVars, rdVariant, rdPcOpen, rdSessionUrl, rdQueue, rdCandOf, rdPatches,
                   rdDeletes>>

NextRd ==
    \/ RdClose
    \/ \E ok \in BOOLEAN : RdIceServers(ok)
    \/ \E ok \in BOOLEAN : RdSendOffer(ok)
    \/ \E created \in BOOLEAN : RdOfferResponse(created)
    \/ \E ok \in BOOLEAN : RdSetAnswer(ok)
    \/ \E ok \in BOOLEAN : RdAnswerSet(ok)
    \/ RdOnLocalCandidate
    \/ \E i \in RdPatchIds, ok \in BOOLEAN : RdPatchResult(i, ok)
    \/ RdOnConnectionState
    \/ RdRestartTimeout

InitExt == InitTo /\ InitSsIdle /\ InitDq /\ InitRdIdle

(***************************************************************************)
(* Part VI: NewManager of internal/forwarder/manager.go, which builds the  *)
(* forwarders of a path from its configuration.  Texts are sequences of    *)
(* characters.                                                             *)
(***************************************************************************)
\* the variable of the target URLs
MtxPathToken == <<"$", "M", "T", "X", "_", "P", "A", "T", "H">>
\* pieces of text a configured URL is made of; none holds the token
SrtSinkPiece == <<"s", "r", "t", ":", "/", "/", "s", "i", "n", "k", ":", "8", "8", "9", "0", "?", "s", "t", "r", "e", "a", "m", "i", "d", "=", "p", "u", "b", "l", "i", "s", "h", ":">>
NmPieces == {SrtSinkPiece, <<"w", "/">>, <<"$">>, <<>>}
\* a configured URL is its pieces with the token between them
NmPieceLists == {<<a>> : a \in NmPieces} \cup {<<SrtSinkPiece, <<>>>>, <<<<"w", "/">>, <<"$">>>>, <<<<>>, <<"w", "/">>, <<>>>>}
NmPathNames == {<<"l", "i", "v", "e", "/", "f", "o", "o">>, <<"a">>}
\* the lengths a target list of the configuration may have
NmListLens == {0, 1, 2}

RECURSIVE JoinWith(_, _)
\* the pieces, joined with sep between two neighbours
JoinWith(pieces, sep) ==
    IF Len(pieces) = 1 THEN pieces[1]
    ELSE pieces[1] \o sep \o JoinWith(Tail(pieces), sep)

\* strings.HasPrefix(s[i:], old) with i counted from 1
HasPrefixAt(s, i, old) ==
    /\ i + Len(old) - 1 <= Len(s)
    /\ \A k \in 1..Len(old) : s[i + k - 1] = old[k]

RECURSIVE ReplaceFrom(_, _, _, _, _)
\* strings.Replace(s[i:], old, new, n) for a non-empty old: scanning from the
\* left, each of the first n non-overlapping occurrences (all of them with
\* n < 0) is replaced
ReplaceFrom(s, i, old, new, n) ==
    IF i > Len(s) THEN <<>>
    ELSE IF n # 0 /\ HasPrefixAt(s, i, old)
         THEN new \o ReplaceFrom(s, i + Len(old), old, new, n - 1)
         ELSE <<s[i]>> \o ReplaceFrom(s, i + 1, old, new, n)

\* a variant that replaces the first occurrence only
ReplaceAll_First(s, old, new) == ReplaceFrom(s, 1, old, new, 1)
\* strings.ReplaceAll(s, old, new)
ReplaceAll(s, old, new) == ReplaceFrom(s, 1, old, new, -1)

\* a target of the configuration: its enable flag and URL (the pieces are kept
\* to state what the URL is made of)
NmTargets == [Enable : BOOLEAN, pieces : NmPieceLists]
TargetURL(target) == JoinWith(target.pieces, MtxPathToken)
NmTargetLists == UNION {[1..n -> NmTargets] : n \in NmListLens}

\* the arguments of NewManager and the manager before the first loop
InitNm ==
    /\ nmSrtTargets \in NmTargetLists
    /\ nmWebrtcTargets \in NmTargetLists
    /\ nmPathName \in NmPathNames
    /\ nmI = 1 /\ nmJ = 1
    /\ nmForwarders = <<>>
    /\ nmReturned = FALSE

\* NewManager is not observed
InitNmIdle ==
    /\ nmSrtTargets = <<>> /\ nmWebrtcTargets = <<>>
    /\ nmPathName = <<"a">>
    /\ nmI = 1 /\ nmJ = 1
    /\ nmForwarders = <<>>
    /\ nmReturned = FALSE

\* one round of a loop of NewManager on target: a disabled target is skipped,
\* an enabled one gets a forwarder with the resolved URL, appended to
\* m.forwarders
NmRound(knd, target) ==
    nmForwarders' =
       IF ~target.Enable THEN nmForwarders
       ELSE Append(nmForwarders,
                   [kind |-> knd, url |-> ReplaceAll(TargetURL(target), MtxPathToken, nmPathName)])

\* the loop over srtTargets
NmSrtRound ==
    /\ ~nmReturned
    /\ nmI <= Len(nmSrtTargets)
    /\ NmRound("srt", nmSrtTargets[nmI])
    /\ nmI' = nmI + 1
    /\ UNCHANGED <<nonNmVars, nmSrtTargets, nmWebrtcTargets, nmPathName, nmJ, nmReturned>>

\* the loop over webrtcTargets, entered when the first loop is over
NmWebrtcRound ==
    /\ ~nmReturned
    /\ nmI > Len(nmSrtTargets)
    /\ nmJ <= Len(nmWebrtcTargets)
    /\ NmRound("whip", nmWebrtcTargets[nmJ])
    /\ nmJ' = nmJ + 1
    /\ UNCHANGED <<nonNmVars, nmSrtTargets, nmWebrtcTargets, nmPathName, nmI, nmReturned>>

\* return m
NmReturn ==
    /\ ~nmReturned
    /\ nmI > Len(nmSrtTargets)
    /\ nmJ > Len(nmWebrtcTargets)
    /\ nmReturned' = TRUE
    /\ UNCHANGED <<nonNmVars, nmSrtTargets, nmWebrtcTargets, nmPathName, nmI, nmJ, nmForwarders>>

NextNm == NmSrtRound \/ NmWebrtcRound \/ NmReturn

(***************************************************************************)
(* Part VII: the payload size of the SRT forwarder's buffered writer.      *)
(***************************************************************************)
\* the values of udpMaxPayloadSize the manager may be built with; the sums and
\* products below stay far from the limits of Go's int on them
PayInputs == -600..800

\* Go's integer division a / b for b > 0: the quotient is truncated toward zero
GoDiv(a, b) == IF a >= 0 THEN a \div b ELSE -((-a) \div b)

\* srtForwarder.srtMaxPayloadSize
SrtMaxPayloadSize(udpMaxPayloadSize) == GoDiv(udpMaxPayloadSize - 16, 188) * 188

\* newSRTForwarder with a udpMaxPayloadSize of the range
InitPay ==
    /\ payUdp \in PayInputs
    /\ payCalled = FALSE
    /\ maxPayloadSize = 0

\* the forwarder's runInner is not observed
InitPayIdle ==
    /\ payUdp = 1472
    /\ payCalled = FALSE
    /\ maxPayloadSize = 0

\* runInner: maxPayloadSize := f.srtMaxPayloadSize()
PayCall ==
    /\ ~payCalled
    /\ payCalled' = TRUE
    /\ maxPayloadSize' = SrtMaxPayloadSize(payUdp)
    /\ UNCHANGED <<nonPayVars, payUdp>>

NextPay == PayCall

(***************************************************************************)
(* Part VIII: the forwarder manager and its children.  Manager.Start       *)
(* spawns one task per child that calls the child's Start; Manager.Stop    *)
(* cancels m.ctx and calls the children's Stop one after the other.  The   *)
(* children are SRT forwarders reduced to what Start, Stop and run() do    *)
(* to f.stream, f.ctx, f.wg and the reader.                                *)
(***************************************************************************)
\* child forwarders of the manager
MaxMgKids == 2
\* Manager.Start calls of the host
MaxMgStarts == 2

MgKids == 1..MaxMgKids
MgSupIds == 1..MaxMgStarts
\* run(): not spawned, at the head of the loop, in srt.Dial, in an srt.Dial
\* that never returns, in the final select of runInner with the reader
\* attached, returned
MgSupPcs == {"none", "loop", "dial", "hung", "conn", "done"}
MgLive == {"loop", "dial", "hung", "conn"}

\* NewManager, newSRTForwarder: every child with a context of its own
InitMg ==
    /\ mgCtxDone = FALSE
    /\ mgKids = [k \in MgKids |-> [stream |-> FALSE, ctxDone |-> FALSE, wg |-> 0]]
    /\ mgSup = [k \in MgKids |-> [j \in MgSupIds |-> "none"]]
    /\ mgTasks = [k \in MgKids |-> 0]
    /\ mgStop = 0
    /\ mgStopPc = "idle"
    /\ mgLast = "new"
    /\ mgStarts = 0

\* the context passed to NewManager is cancelled: m.ctx, derived from it, is
\* cancelled with it; the children's contexts derive from context.Background()
MgParentCancel ==
    /\ ~mgCtxDone
    /\ mgCtxDone' = TRUE
    /\ UNCHANGED <<nonMgVars, mgKids, mgSup, mgTasks, mgStop, mgStopPc, mgLast, mgStarts>>

\* Manager.Start: one "go func(forwarder) { forwarder.Start(stream) }" per child
MgStart ==
    /\ mgStop = 0
    /\ mgStarts < MaxMgStarts
    /\ mgStarts' = mgStarts + 1
    /\ mgTasks' = [k \in MgKids |-> mgTasks[k] + 1]
    /\ mgLast' = "start"
    /\ UNCHANGED <<nonMgVars, mgCtxDone, mgKids, mgSup, mgStop, mgStopPc>>

\* the first supervisor number of child k that is not in use
MgFreeSup(k) == CHOOSE j \in MgSupIds : mgSup[k][j] = "none" /\ \A i \in 1..(j - 1) : mgSup[k][i] # "none"

\* a start task runs: forwarder.Start(stream) returns "already started" when
\* f.stream is set, and else stores the stream and spawns run()
MgStartTask(k) ==
    /\ mgTasks[k] > 0
    /\ mgTasks' = [mgTasks EXCEPT ![k] = @ - 1]
    /\ IF mgKids[k].stream
       THEN UNCHANGED <<mgKids, mgSup>>
       ELSE /\ mgKids' = [mgKids EXCEPT ![k].stream = TRUE, ![k].wg = @ + 1]
            /\ mgSup' = [mgSup EXCEPT ![k][MgFreeSup(k)] = "loop"]
    /\ UNCHANGED <<nonMgVars, mgCtxDone, mgStop, mgStopPc, mgLast, mgStarts>>

\* Manager.Stop: m.ctxCancel(), then the loop over the children begins
MgStopBegin ==
    /\ mgStop = 0
    /\ mgCtxDone' = TRUE
    /\ mgStop' = 1
    /\ mgStopPc' = "cancel"
    /\ UNCHANGED <<nonMgVars, mgKids, mgSup, mgTasks, mgLast, mgStarts>>

\* f.Stop() of the child Manager.Stop is at: f.ctxCancel()
MgStopCancel ==
    /\ mgStop # 0 /\ mgStopPc = "cancel"
    /\ mgKids' = [mgKids EXCEPT ![mgStop].ctxDone = TRUE]
    /\ mgStopPc' = "wait"
    /\ UNCHANGED <<nonMgVars, mgCtxDone, mgSup, mgTasks, mgStop, mgLast, mgStarts>>

\* f.Stop(): f.wg.Wait() returns when no run() of the child is left
MgStopWait ==
    /\ mgStop # 0 /\ mgStopPc = "wait"
    /\ mgKids[mgStop].wg = 0
    /\ mgStopPc' = "crit"
    /\ UNCHANGED <<nonMgVars, mgCtxDone, mgKids, mgSup, mgTasks, mgStop, mgLast, mgStarts>>

\* f.Stop(): f.stream = nil under the mutex; Manager.Stop goes on to the next
\* child or returns
MgStopCrit ==
    /\ mgStop # 0 /\ mgStopPc = "crit"
    /\ mgKids' = [mgKids EXCEPT ![mgStop].stream = FALSE]
    /\ IF mgStop < MaxMgKids
       THEN mgStop' = mgStop + 1 /\ mgStopPc' = "cancel" /\ UNCHANGED mgLast
       ELSE mgStop' = 0 /\ mgStopPc' = "idle" /\ mgLast' = "stop"
    /\ UNCHANGED <<nonMgVars, mgCtxDone, mgSup, mgTasks, mgStarts>>

\* run() returns: defer f.wg.Done()
MgSupReturns(k, j) ==
    /\ mgSup' = [mgSup EXCEPT ![k][j] = "done"]
    /\ mgKids' = [mgKids EXCEPT ![k].wg = @ - 1]

\* run() at the head of its loop: return on a cancelled f.ctx, else runInner
MgSupLoop(k, j) ==
    /\ mgSup[k][j] = "loop"
    /\ IF mgKids[k].ctxDone
       THEN MgSupReturns(k, j)
       ELSE mgSup' = [mgSup EXCEPT ![k][j] = "dial"] /\ UNCHANGED mgKids
    /\ UNCHANGED <<nonMgVars, mgCtxDone, mgTasks, mgStop, mgStopPc, mgLast, mgStarts>>

\* what becomes of srt.Dial, which takes no context: a connection, an error
\* (run() returns, the target not asking for reconnects), or no return
MgDialOutcomes == {"ok", "error", "hangs"}

MgSupDial(k, j, outcome) ==
    /\ mgSup[k][j] = "dial"
    /\ CASE outcome = "ok" -> mgSup' = [mgSup EXCEPT ![k][j] = "conn"] /\ UNCHANGED mgKids
         [] outcome = "error" -> MgSupReturns(k, j)
         [] OTHER -> mgSup' = [mgSup EXCEPT ![k][j] = "hung"] /\ UNCHANGED mgKids
    /\ UNCHANGED <<nonMgVars, mgCtxDone, mgTasks, mgStop, mgStopPc, mgLast, mgStarts>>

\* runInner's final select sees f.ctx.Done(): the deferred cleanup removes the
\* reader and closes the connection, runInner returns nil and run() is back at
\* the head of its loop
MgSupCancelled(k, j) ==
    /\ mgSup[k][j] = "conn"
    /\ mgKids[k].ctxDone
    /\ mgSup' = [mgSup EXCEPT ![k][j] = "loop"]
    /\ UNCHANGED <<nonMgVars, mgCtxDone, mgKids, mgTasks, mgStop, mgStopPc, mgLast, mgStarts>>

MgStopStep == MgStopCancel \/ MgStopWait \/ MgStopCrit

MgSupStep ==
    \/ \E k \in MgKids, j \in MgSupIds : MgSupLoop(k, j)
    \/ \E k \in MgKids, j \in MgSupIds, o \in MgDialOutcomes : MgSupDial(k, j, o)
    \/ \E k \in MgKids, j \in MgSupIds : MgSupCancelled(k, j)

MgTaskStep == \E k \in MgKids : MgStartTask(k)

NextMg ==
    \/ MgParentCancel
    \/ MgStart
    \/ MgStopBegin
    \/ MgStopStep
    \/ MgTaskStep
    \/ MgSupStep

(***************************************************************************)
(* The specifications.                                                     *)
(***************************************************************************)
\* the forwarder before Start, while the simulcast source is observed
InitFwdIdle ==
    /\ kind = "srt" /\ reconnect = FALSE /\ urlOK = TRUE /\ descOK = TRUE
    /\ remotePlan = "any"
    /\ InitFwdState

\* the simulcast source before Run, while the forwarder is observed
InitSimIdle ==
    /\ simCfg = <<In("h", "high", "video")>>
    /\ simDesc = [p \in SimPaths |-> <<Media("video", <<"h264">>)>>]
    /\ upPopulated = [p \in SimPaths |-> TRUE]
    /\ InitSimState

vars == <<fwdVars, simVars, spVars, abrVars, tcVars, nmVars, payVars, mgVars, extVars>>

\* the components that are not observed, before they are started
IdleCore == InitFwdIdle /\ InitSimIdle /\ InitSp /\ InitAbrIdle /\ InitTc /\ InitNmIdle /\ InitPayIdle /\ InitMg
IdlePlayers == InitSp /\ InitAbrIdle /\ InitTc /\ InitNmIdle /\ InitPayIdle /\ InitMg /\ InitExt

Init == InitFwd /\ InitSimIdle /\ IdlePlayers
InitRec == InitReconnect /\ InitSimIdle /\ IdlePlayers
InitSimSpec == InitFwdIdle /\ InitSim /\ IdlePlayers
InitSimWaitSpec == InitFwdIdle /\ InitSimWait /\ IdlePlayers
InitSpSpec == InitFwdIdle /\ InitSimIdle /\ IdlePlayers
InitAbrSpec == InitFwdIdle /\ InitSimIdle /\ InitSp /\ InitAbr /\ InitTc /\ InitNmIdle /\ InitPayIdle /\ InitMg /\ InitExt
InitNmSpec == InitFwdIdle /\ InitSimIdle /\ InitSp /\ InitAbrIdle /\ InitTc /\ InitNm /\ InitPayIdle /\ InitMg /\ InitExt
InitSimDescSpec == InitFwdIdle /\ InitSimDesc /\ IdlePlayers
InitMgSpec == InitFwdIdle /\ InitSimIdle /\ IdlePlayers
InitPaySpec == InitFwdIdle /\ InitSimIdle /\ InitSp /\ InitAbrIdle /\ InitTc /\ InitNmIdle /\ InitPay /\ InitMg /\ InitExt
InitTcSpec == InitFwdIdle /\ InitSimIdle /\ IdlePlayers
Next == NextFwd
Spec == Init /\ [][Next]_vars

\* supervisors are goroutines: a step that stays possible is eventually taken
SpecReconnect ==
    InitRec /\ [][NextReconnect]_vars /\ WF_vars(SupStep)

\* the simulcast source
SpecSim == InitSimSpec /\ [][NextSim]_vars

\* the simulcast source connecting to paths that are not published yet
SpecSimWait == InitSimWaitSpec /\ [][NextSimWait]_vars

\* the simulcast source building its description from any upstream descriptions
SpecSimDesc == InitSimDescSpec /\ [][NextSimDesc]_vars

\* the simulcast player
SpecSp == InitSpSpec /\ [][NextSp]_vars

\* the adaptive player with the penalty box
SpecAbr == InitAbrSpec /\ [][NextAbr]_vars

\* the transcoding outputs and their static sources
SpecTc == InitTcSpec /\ [][NextTc]_vars

\* NewManager on every configuration of the bounded sets
SpecNm == InitNmSpec /\ [][NextNm]_vars

\* the manager and its children: the calls of Manager.Stop and the run()
\* goroutines are scheduled, so a step of theirs that stays possible is taken
SpecMg ==
    InitMgSpec /\ [][NextMg]_vars /\ WF_vars(MgStopStep) /\ WF_vars(MgSupStep)

\* srtMaxPayloadSize on every udpMaxPayloadSize of the range
SpecPay == InitPaySpec /\ [][NextPay]_vars

\* the transcoder manager and its outputs
InitToSpec == InitFwdIdle /\ InitSimIdle /\ IdlePlayers
SpecTo == InitToSpec /\ [][NextTo]_vars

\* the transcoder static source; a Run in progress and a Stop that waits
\* take their steps
InitSsSpec == IdleCore /\ InitTo /\ InitSs /\ InitDq /\ InitRdIdle
SpecSs ==
    InitSsSpec /\ [][NextSs]_vars /\ WF_vars(SsRunStep) /\ WF_vars(SsStopReturn)

\* the quality decision of the simulcast player
InitDqSpec == InitFwdIdle /\ InitSimIdle /\ IdlePlayers
SpecDq == InitDqSpec /\ [][NextDq]_vars

\* the WHEP reader alone, built from either file
InitRdSpec == IdleCore /\ InitTo /\ InitSsIdle /\ InitDq /\ InitRd
SpecRd == InitRdSpec /\ [][NextRd]_vars

(***************************************************************************)
(* Properties of the forwarder.                                            *)
(***************************************************************************)
LastCall == IF hist = <<>> THEN "" ELSE hist[Len(hist)]
StopsReturned == Len(SelectSeq(hist, LAMBDA x : x = "stop"))

\* C1: once Stop() has returned, and until the next Start, no reader of the
\* forwarder is attached to a stream and no connection of it is open.
C1_StopDetachesAndCloses ==
    stopReturned => (~FwdAttached /\ connOpen = {})

\* a Stop has returned on a forwarder that had connected and attached a reader
C1_Witness ==
    /\ stopReturned
    /\ \E c \in ConnIds : closes[c] > 0
    /\ \E r \in ReaderIds : removes[r] > 0

\* a step in which a call of Start returns
StartStep ==
    /\ Len(hist') = Len(hist) + 1
    /\ hist'[Len(hist')] \in {"start", "start_err"}

\* C2: Start on a forwarder that is already started returns the "already
\* started" error and changes nothing: no supervisor is spawned, and the stored
\* stream, the counters, lastError and connected stay as they are.
C2_StartTwiceChangesNothing ==
    [][(StartStep /\ fStream # 0) =>
         /\ hist'[Len(hist')] = "start_err"
         /\ UNCHANGED <<fStream, fReader, fConn, sup, nSup, wg, ctxDone, lastError,
                        connected, reconnectCount, packetsSent, packetsLost>>]_vars

\* a second Start was refused while the forwarder was connected
C2_Witness == LastCall = "start_err" /\ connected /\ FwdAttached

\* C3: the RTP packets of every unit dispatched to the forwarder's reader with
\* a payload are counted in packetsSent or in packetsLost (GetStats).
C3_UnitsAreCounted ==
    GetStats.PacketsSent + GetStats.PacketsLost = pktsDispatched

\* C4: IsRunning() implies a non-null connection and an attached reader.
C4_RunningImpliesConnected ==
    IsRunning => (fConn # 0 /\ FwdAttached)

\* C5: with reconnect enabled, a first attempt refused and the later ones
\* accepted, and no Stop, a started forwarder eventually is connected with
\* reconnectCount = 1 and its reader attached.
C5_ReconnectRecovers ==
    (fStream # 0 /\ attempts = 0) ~>
        (connected /\ reconnectCount = 1 /\ FwdAttached /\ GetStats.Connected)

\* the forwarder has recovered from the refused attempt
C5_Witness ==
    /\ connected /\ reconnectCount = 1 /\ FwdAttached
    /\ lastError # "" /\ dials = 2

\* C6: after Start; Stop; Start; Stop every stream's reader set is what it was
\* before the sequence.
C6_StartStopTwiceRestoresReaders ==
    (hist = <<"start", "stop", "start", "stop">> /\ CallsInProgress = 0) =>
        \A s \in Streams : streamReaders[s] = {LocalReader}

\* the sequence has run and a reader had been attached and removed in between
C6_Witness ==
    /\ hist = <<"start", "stop", "start", "stop">>
    /\ CallsInProgress = 0
    /\ \E r \in ReaderIds : removes[r] > 0

\* the state a Stop leaves: supervisor cancelled, fields cleared, connection
\* closed, reader detached
StoppedState ==
    /\ ctxDone
    /\ fStream = 0 /\ fReader = 0 /\ fConn = 0
    /\ connOpen = {}
    /\ ~FwdAttached

VideoOut == {k \in 1..Len(simOut) : simOut[k].media = "video"}

\* C8: every packet written to the output stream from a video input carries
\* the SSRC allocated for that input in connectInputs.
C8_PacketsCarryLayerSSRC ==
    \A k \in VideoOut : simHeap[simOut[k].id].ssrc = simAlloc[simOut[k].input]

\* C9: once connectInputs has completed, the SSRCs allocated to the inputs
\* are pairwise distinct.
C9_AllocatedSSRCsDistinct ==
    \A i, j \in 1..Len(simAlloc) : i # j => simAlloc[i] # simAlloc[j]

\* C10: the packets a publisher wrote stay as published, and each packet
\* written to the output stream is another packet than its upstream packet,
\* equal to it in sequence number, timestamp and payload, and in SSRC too
\* when it is audio.
C10_UpstreamUntouchedCopiesFaithful ==
    /\ \A k \in 1..Len(simPub) : simHeap[simPub[k].id] = simPub[k].pkt
    /\ \A k \in 1..Len(simOut) :
          LET o == simOut[k]
          IN /\ o.id # o.src
             /\ simHeap[o.id].seq = simHeap[o.src].seq
             /\ simHeap[o.id].ts = simHeap[o.src].ts
             /\ simHeap[o.id].payload = simHeap[o.src].payload
             /\ o.media = "audio" => simHeap[o.id].ssrc = simHeap[o.src].ssrc

\* a two-packet video unit and an audio unit have been forwarded, the video
\* copies with an SSRC other than the publisher's
C10_Witness ==
    /\ \E k \in VideoOut : /\ k + 1 \in VideoOut
                            /\ simOut[k + 1].src = simOut[k].src + 1
                            /\ simHeap[simOut[k].id].ssrc # simHeap[simOut[k].src].ssrc
                            /\ simHeap[simOut[k].id].seq = 65535
    /\ \E k \in 1..Len(simOut) : simOut[k].media = "audio"

SpOpenReaders == {r \in SpReaderIds : SpOpen(spReaders, r)}

\* C12: at every moment at most one reader created by loadLevel is open.
C12_AtMostOneOpenReader == Cardinality(SpOpenReaders) <= 1

\* C14: whenever a reader is closed, another reader is open on which ontrack
\* has already fired.
C14_CloseOnlyAfterNewTrack ==
    [][\A r \in SpReaderIds :
         (SpOpen(spReaders, r) /\ spReaders'[r].state = "closed")
            => \E r2 \in SpReaderIds \ {r} :
                  SpOpen(spReaders', r2) /\ spReaders'[r2].tracked]_vars

(***************************************************************************)
(* Properties of the adaptive player.                                      *)
(***************************************************************************)
\* C13: in auto mode no loadLevel other than a manual switch creates a reader
\* for a level whose ban has not expired.
C13_NoAutoSwitchToBannedLevel ==
    (abrLastLoad.cause # "manual" /\ abrLastLoad.auto) => ~abrLastLoad.banned

\* C15: the penalty time of the n-th failure of a level is
\* min(30 s * 2^(n-1), 120 s).
C15_PenaltyIs30sDoublingTo120s ==
    \A l \in AbrLevels :
       abrFailureCounts[l] >= 1 =>
          abrBanLen[l] = (IF 30000 * 2^(abrFailureCounts[l] - 1) > 120000
                          THEN 120000
                          ELSE 30000 * 2^(abrFailureCounts[l] - 1))

\* the medias of a type in a description
MediasOfType(desc, ty) == SelectSeq(desc, LAMBDA m : m.type = ty)

\* C26: the description handed to SetReady holds at most one video media and
\* at most one audio media, the video one with the H.264 format only and the
\* audio one with the Opus format only.
C26_SyntheticDescAtMostOnePerType ==
    simReady =>
       /\ Len(MediasOfType(outDesc, "video")) <= 1
       /\ Len(MediasOfType(outDesc, "audio")) <= 1
       /\ \A k \in 1..Len(outDesc) :
             outDesc[k].fmts = (IF outDesc[k].type = "video" THEN <<"h264">> ELSE <<"opus">>)

\* the stream readers of the simulcast source that are on an upstream stream
SimAttached == UNION {upReaders[p] : p \in SimPaths}

\* C27: when Run has returned after the cancellation of its context, every
\* reader the connect phase attached has been removed from its upstream stream.
C27_CancelDetachesEveryReader ==
    (simPc = "done" /\ paramsCtxDone /\ simRunErr = "") => SimAttached = {}

\* the forwarder tasks blocked on "<-s.ctx.Done()"
SimBlockedTasks == {i \in 1..Len(simTask) : simTask[i] = "waiting"}

\* C28: once Run has returned after the cancellation of its context, no
\* forwarder task started for that Run is still blocked: every one has ended.
C28_NoTaskOutlivesRun ==
    (simPc = "done" /\ paramsCtxDone) => SimBlockedTasks = {}

\* C29: a step writes a packet to the output stream only while the source is
\* ready, that is after SetReady has returned and before SetNotReady is called.
C29_WritesOnlyWhileReady ==
    [][Len(simOut') > Len(simOut) => simReady]_vars

\* C31: a data callback is registered on a reader only while the reader is not
\* yet on a stream: no step gives a callback to a reader that is attached.
C31_CallbacksBeforeAttach ==
    [][\A r \in SimReaderIds : simCb'[r] # simCb[r] => r \notin SimAttached]_vars

\* a step in which the child of output o is killed
ToKilledNow(o) == toChild'[o] = "killed" /\ toChild[o] # "killed"

\* C32: the child of a transcoding output is killed only by a Stop that has
\* closed the child's stdin and waited for its exit in vain, and when
\* Output.Stop has returned the three tasks of the output have ended.
C32_KillOnlyAfterStdinCloseAndWait ==
    /\ [][\A o \in ToOutputs :
             ToKilledNow(o) => (~toStdinOpen[o] /\ toStopPc[o] = "waitproc")]_vars
    /\ [](\A o \in ToOutputs : toStopPc[o] = "returned" => ToTasksDone(o))

\* C33: while an output is started (active, Stop not called) and its child
\* runs, the input task, once it has attached its reader, keeps it attached.
C33_InputReaderStaysAttached ==
    \A o \in ToOutputs :
       (toActive[o] /\ toChild[o] = "running" /\ toIn[o] # "start") => toReader[o]

\* C34: when Manager.Start has returned the error of an output that failed to
\* start, the manager is inactive and no output is left started.
C34_SpawnFailureLeavesManagerInactive ==
    tmErr = "error" => (~tmActive /\ \A o \in ToOutputs : ~toActive[o])

\* C35: a Stop of the transcoder static source that has been called returns,
\* whatever Run has done or does, as long as the process has not panicked.
C35_SourceStopReturns == (ssStop = "waiting") ~> (ssStop = "returned" \/ ssPanicked)

\* a step in which decideQuality calls loadLevel for the given cause
DqDecidesLoad(cause) == ~dqSwitching /\ dqSwitching' /\ dqCause' = cause

\* C36: decideQuality starts a downgrade only on a tick that completes 4
\* consecutive measured ticks on which a downgrade trigger held, and only to
\* the adjacent lower level.
C36_DowngradeAfterFourBadTicks ==
    [][DqDecidesLoad("down") =>
          (dqTrigRun' >= DOWNGRADE_PERSISTENCE /\ dqPending' = dqIdx + 1)]_vars

\* C37: decideQuality starts an upgrade only on a tick that completes 8
\* consecutive measured ticks on which the network was healthy, and only to
\* the adjacent higher level.
C37_UpgradeAfterEightGoodTicks ==
    [][DqDecidesLoad("up") =>
          (dqGoodRun' >= STABLE_DURATION /\ dqPending' = dqIdx - 1)]_vars

\* C38: a failure of a reader whose ontrack has already fired only enters the
\* reader's own restart: the step penalises no level, does not switch to the
\* fallback stream and schedules no load of another level.
AbrEstablishedFails(r) ==
    /\ abrReaders[r].tracked
    /\ abrReaders[r].state = "running"
    /\ abrReaders'[r].state = "restarting"

C38_EstablishedFailureOnlyRestarts ==
    [][\A r \in AbrReaderIds :
          AbrEstablishedFails(r) =>
             /\ abrPenaltyBox' = abrPenaltyBox
             /\ abrFailureCounts' = abrFailureCounts
             /\ abrFallback' = abrFallback
             /\ abrTimers' = abrTimers]_vars

\* C39: close() moves the reader to closed and clears the restart timer; when
\* a session URL is known the call sends DELETE to it; a closed reader stays
\* closed, starts no further attempt and opens no peer connection.
RdClosedNow == rdState # "closed" /\ rdState' = "closed"

C39_CloseDeletesSessionAndIsFinal ==
    /\ [][/\ (RdClosedNow /\ rdSessionUrl) => rdDeletes' = rdDeletes + 1
          /\ rdState = "closed" =>
                (rdState' = "closed" /\ rdStarts' = rdStarts /\ ~rdPcOpen')]_vars
    /\ [](rdState = "closed" => ~rdTimer)

\* C40: candidates produced before the 201 response are queued and leave in
\* one PATCH when the session URL becomes known; each later candidate leaves
\* in a PATCH of its own; a candidate of the running attempt is in the queue
\* or in exactly one PATCH, never in two; a PATCH that fails leaves the state
\* of the reader as it was.
RdSentCount(c) == Cardinality({i \in 1..Len(rdPatches) : c \in rdPatches[i].cands})
RdCurrent == {c \in 1..Len(rdCandOf) : rdCandOf[c] = rdStarts}
RdQueued == {rdQueue[i] : i \in 1..Len(rdQueue)}
RdPatchOf(cs) == [cands |-> cs, res |-> "inflight"]
RdPatchFailsNow(i) == rdPatches[i].res = "inflight" /\ rdPatches'[i].res = "failed"

C40_CandidatesQueuedThenPatchedOnce ==
    /\ [][/\ (~rdSessionUrl /\ rdSessionUrl' /\ RdQueued # {}) =>
                (rdQueue' = <<>> /\ rdPatches' = Append(rdPatches, RdPatchOf(RdQueued)))
          /\ (Len(rdCandOf') > Len(rdCandOf) /\ rdSessionUrl) =>
                rdPatches' = Append(rdPatches, RdPatchOf({Len(rdCandOf')}))
          /\ \A i \in 1..Len(rdPatches) : RdPatchFailsNow(i) => rdState' = rdState]_vars
    /\ [](\A c \in 1..Len(rdCandOf) : RdSentCount(c) <= 1)
    /\ [](rdState = "running" =>
            \A c \in RdCurrent : IF rdSessionUrl THEN RdSentCount(c) = 1 ELSE c \in RdQueued)

\* C30: when Run has returned with an error of the connect phase, no reader
\* added during that Run is left on an upstream stream.
C30_ConnectErrorLeavesNoReader ==
    (simPc = "done" /\ simRunErr = "connect") => SimAttached = {}

(***************************************************************************)
(* Properties of the forwarder across Stop and Start.                      *)
(***************************************************************************)
\* a Stop has been called after the last Start that succeeded
StopSinceStart == stopReturned \/ \E c \in Callers : callerPc[c] # "idle"

\* the supervisor of an SRT forwarder leaves run() at the head of its loop,
\* without calling runInner
SrtLeavesAtLoopHead(i) == kind = "srt" /\ sup[i].pc = "loop" /\ sup'[i].pc = "done"

\* C19: the supervisor spawned by a Start runs its inner loop (again, when the
\* Start follows a Stop): unless a Stop has been called since that Start, it
\* does not leave run() at the head of the loop without an attempt.
C19_StartedSupervisorRunsInner ==
    [][\A i \in SupIds :
          (i = nSup /\ ~StopSinceStart) => ~SrtLeavesAtLoopHead(i)]_vars

\* the inner runs started after the first one
AttemptsAfterFirst == IF attempts = 0 THEN 0 ELSE attempts - 1

\* C20: once the supervisor of a forwarder that was started once has left
\* run(), reconnectCount is the number of inner runs started after the first:
\* one increment per reconnect attempt and none when no attempt follows.
C20_ReconnectCountIsAttemptsAfterFirst ==
    (nSup = 1 /\ sup[1].pc = "done") => reconnectCount = AttemptsAfterFirst

\* the forwarder's readers that a step attaches to a stream
NewlyAttached == UNION {FwdReadersOn(s)' \ FwdReadersOn(s) : s \in Streams}

\* the errors of an inner run that ends before AddReader
WhipEarlyErrors == {"invalid", "setup", "init"}

\* C21: the WHIP forwarder attaches its reader only in an inner run whose WHIP
\* client has been initialised (its connection exists and is open), and an
\* inner run that has failed at the URL check, the track setup or the
\* initialisation has left no reader of the forwarder on any stream.
C21_WhipAttachesAfterInit ==
    /\ [][(kind = "whip" /\ NewlyAttached # {}) =>
             \E i \in SupIds : /\ sup[i].pc = "attach"
                                /\ sup[i].conn \in connOpen
                                /\ NewlyAttached = {fReader}]_vars
    /\ [](\A i \in SupIds :
            (kind = "whip" /\ sup[i].pc = "after" /\ sup[i].err \in WhipEarlyErrors)
               => ~FwdAttached)

\* a WHIP forwarder whose first inner run failed in the initialisation and
\* whose second one has attached its reader after it
C21_Witness ==
    /\ kind = "whip"
    /\ lastError = "init"
    /\ \E i \in SupIds : /\ sup[i].pc \in {"setconn", "wait"}
                         /\ sup[i].conn \in connOpen
                         /\ sup[i].rdr \in FwdReadersOn(sup[i].strm)

\* where a supervisor stands between AddReader and the end of the deferred
\* cleanup of its inner run
InnerHoldsReader == {"setconn", "wait", "detach", "close"}

C23_ManagerStopReturns == (mgStop # 0) ~> (mgStop = 0)

\* C24: the children's cancellation tokens are wired from the manager's: once
\* m.ctx is cancelled, every supervisor that waits in the final select of its
\* inner run, the reader attached, waits on a cancelled context.
C24_ChildTokensFollowParent ==
    mgCtxDone =>
       \A k \in MgKids, j \in MgSupIds : mgSup[k][j] = "conn" => mgKids[k].ctxDone

\* C25: when the last call of the host that returned is Manager.Stop, no child
\* has a stored stream and no child has a live supervisor (hence no attached
\* reader).
C25_NothingStartedAfterManagerStop ==
    (mgLast = "stop" /\ mgStop = 0) =>
       \A k \in MgKids :
          /\ ~mgKids[k].stream
          /\ \A j \in MgSupIds : mgSup[k][j] \notin MgLive

(***************************************************************************)
(* Properties of the transcoding outputs.                                  *)
(***************************************************************************)
\* C16: a sibling path that is ready on the stream of an output whose encoder
\* output has been parsed successfully was published with the detected
\* description, not the tentative one.
C16_ReadyPathHasDetectedDesc ==
    \A o \in TcPaths :
       (tcSrcPc[o] = "ready" /\ tcOutputs[o] /\ tcHeld[o] = tcGen /\ tcParse[o] = "ok")
          => tcPublished[o] = "detected"

(***************************************************************************)
(* Properties of NewManager.                                               *)
(***************************************************************************)
RECURSIVE EnabledOf(_, _, _)
\* one entry per enabled target of the list, in the list's order, with the
\* path name standing where the token stood in the configured URL
EnabledOf(knd, targets, pathName) ==
    IF targets = <<>> THEN <<>>
    ELSE (IF Head(targets).Enable
          THEN <<[kind |-> knd, url |-> JoinWith(Head(targets).pieces, pathName)]>>
          ELSE <<>>) \o EnabledOf(knd, Tail(targets), pathName)

\* C17: the manager NewManager returns has exactly one forwarder per enabled
\* target and none for a disabled one, the SRT ones first and then the WHIP
\* ones, each in configuration order, and each URL is the configured URL with
\* $MTX_PATH replaced by the path name.
C17_ForwardersMatchEnabledTargets ==
    nmReturned =>
       nmForwarders = EnabledOf("srt", nmSrtTargets, nmPathName)
                         \o EnabledOf("whip", nmWebrtcTargets, nmPathName)

\* NewManager returned for path live/foo with a disabled SRT target before the
\* enabled srt://sink:8890?streamid=publish:$MTX_PATH, and an enabled WHIP
\* target whose URL holds the token twice: the SRT forwarder's URL ends with
\* publish:live/foo
C17_Witness ==
    /\ nmReturned
    /\ nmPathName = <<"l", "i", "v", "e", "/", "f", "o", "o">>
    /\ Len(nmSrtTargets) = 2
    /\ ~nmSrtTargets[1].Enable
    /\ nmSrtTargets[2] = [Enable |-> TRUE, pieces |-> <<SrtSinkPiece, <<>>>>]
    /\ Len(nmWebrtcTargets) = 1
    /\ nmWebrtcTargets[1] = [Enable |-> TRUE, pieces |-> <<<<>>, <<"w", "/">>, <<>>>>]
    /\ Len(nmForwarders) = 2
    /\ nmForwarders[1] = [kind |-> "srt", url |-> <<"s", "r", "t", ":", "/", "/", "s", "i", "n", "k", ":", "8", "8", "9", "0", "?", "s", "t", "r", "e", "a", "m", "i", "d", "=", "p", "u", "b", "l", "i", "s", "h", ":", "l", "i", "v", "e", "/", "f", "o", "o">>]
    /\ nmForwarders[2].kind = "whip"

(***************************************************************************)
(* Properties of the SRT payload size.                                     *)
(***************************************************************************)
\* C18: srtMaxPayloadSize returns 0 whenever udpMaxPayloadSize < 16 + 188, and
\* otherwise the largest multiple of 188 that does not exceed
\* udpMaxPayloadSize - 16.
C18_PayloadZeroBelow204ElseLargestMultiple ==
    payCalled =>
       IF payUdp < 16 + 188
       THEN maxPayloadSize = 0
       ELSE /\ maxPayloadSize % 188 = 0
            /\ maxPayloadSize <= payUdp - 16
            /\ maxPayloadSize + 188 > payUdp - 16

====
